---- MODULE Spec2Model ----
(***************************************************************************)
(* A model of the core of the LinkedIn post generator: the exemplar        *)
(* selector (src/services/few_shot.py), the corpus build with its tag      *)
(* unification (src/services/preprocessing_service.py), the collaborator   *)
(* client (src/services/llm_service.py), the Post of src/schemas/post.py   *)
(* and the quality checks of src/utils/validators.py.                      *)
(*                                                                         *)
(* A Python str is a sequence of one-character strings, a Python dict is a *)
(* function whose domain is its set of keys, a Python list is a sequence.  *)
(***************************************************************************)
EXTENDS Integers, Sequences, FiniteSets, TLC

VARIABLES
    \* FewShotPosts
    posts,          \* self.posts, the loaded corpus
    sel_args,       \* the arguments of the last get_filtered_posts call
    filtered,       \* what that call returned
    sel_raised,     \* whether that call raised
    sel_pc,         \* "idle" before the first call, "done" after a call
    \* llm_service
    groq_api_key,   \* settings.groq_api_key, "" when not configured
    llm_client,     \* _llm_client, "None" or "client"
    \* process_posts
    data_kind,      \* "list" or "dict": the shape of the raw JSON
    dataset_info_categories,
    post_objs,      \* the post dicts, by identity; "metadata" holds the identity of a metadata dict
    meta_objs,      \* the metadata dicts, by identity
    original_posts, \* the identities of the raw posts, in order
    enriched_posts, \* the identities of the enriched posts, in order
    input_before,   \* the raw posts as they were loaded (history)
    candidates,     \* all_unique_tags_for_unification
    unified_tags_mapping,
    llm_calls,      \* how many times chain.invoke was entered
    llm_outcome,    \* how the tag unification went
    build_raised,   \* the exception process_posts raised, "" for none
    processed_file, \* what was written to processed_file_path
    bpc,            \* where process_posts is
    \* FewShotPosts.get_tags
    categories,     \* self.categories
    tags_returned,  \* what get_tags returned
    tags_raised,    \* whether get_tags raised
    tags_pc,        \* "idle" before the call, "done" after it
    \* a Post and the validators run on it
    post_args,      \* the text and the metadata handed to Post(...)
    built_post,     \* the Post once constructed
    score_returned, \* what calculate_post_quality_score returned, in half points
    quality_metrics,\* what validate_post_quality returned
    post_raised,    \* the exception that left the last call, "" for none
    text_verdict,   \* what validate_post_text did: Passed, or the message it raised
    post_pc,        \* "new", "built", "scored", "assessed", "text_checked"
    \* a PostGenerationRequest
    req_args,       \* the keyword arguments handed to PostGenerationRequest(...)
    request,        \* the request object, Nil when none was produced
    req_raised,     \* the exception that left the constructor, "" for none
    req_pc,         \* "new" before the constructor is called, "done" after it
    \* the processed file on disk, process_posts writing it, a FewShotPosts reading it
    disk_file,      \* whether the file exists and the pieces of JSON text it holds
    previous_data,  \* what the file held before the rebuild
    output_data,    \* what process_posts is writing
    write_pc,       \* "built", "opened", "dumping", "closed"
    loaded,         \* self.posts and self.categories of the reader
    reader_pc,      \* "new" before _load_data ran, "loaded" after it
    \* the calls of llm_service
    llm_built,      \* how many ChatGroq instances were constructed so far
    llm_built_since_reset,
    llm_instance,   \* which instance _llm_client holds, 0 while it is None
    llm_first,      \* the instance the first successful call since the reset returned, 0 for none
    llm_last,       \* the last call: its name, what it raised, the instance it returned
    llm_ops         \* how many calls were made

selVars == <<posts, sel_args, filtered, sel_raised, sel_pc>>

llmVars == <<groq_api_key, llm_client>>

buildVars == <<data_kind, dataset_info_categories, post_objs, meta_objs, original_posts,
               enriched_posts, input_before, candidates, unified_tags_mapping, llm_calls,
               llm_outcome, build_raised, processed_file, bpc>>

tagVars == <<categories, tags_returned, tags_raised, tags_pc>>

postVars == <<post_args, built_post, score_returned, quality_metrics, post_raised,
              text_verdict, post_pc>>

reqVars == <<req_args, request, req_raised, req_pc>>

pubVars == <<disk_file, previous_data, output_data, write_pc, loaded, reader_pc>>

callVars == <<llm_built, llm_built_since_reset, llm_instance, llm_first, llm_last, llm_ops>>

extVars == <<reqVars, pubVars, callVars>>

vars == <<selVars, llmVars, buildVars, tagVars, postVars, extVars>>

(***************************************************************************)
(* Bounds of the model.                                                    *)
(***************************************************************************)
MaxPosts == 2         \* longest corpus handed to the selector
MaxExamples == 2      \* largest max_examples of a request
MaxLineCount == 16    \* largest line_count stored in a document
MaxRaw == 2           \* longest raw corpus handed to process_posts
MaxCalls == 10        \* most calls made of llm_service

(***************************************************************************)
(* Strings.                                                                *)
(***************************************************************************)
UpperLetters == <<"A", "B", "C", "D", "E", "F", "G", "H", "I", "J", "K", "L", "M",
                  "N", "O", "P", "Q", "R", "S", "T", "U", "V", "W", "X", "Y", "Z">>
LowerLetters == <<"a", "b", "c", "d", "e", "f", "g", "h", "i", "j", "k", "l", "m",
                  "n", "o", "p", "q", "r", "s", "t", "u", "v", "w", "x", "y", "z">>

UpperSet == {UpperLetters[i] : i \in DOMAIN UpperLetters}
LowerSet == {LowerLetters[i] : i \in DOMAIN LowerLetters}

\* the lower-case letter of each upper-case letter, and back
ToLower == [c \in UpperSet |->
               LowerLetters[CHOOSE i \in DOMAIN UpperLetters : UpperLetters[i] = c]]
ToUpper == [c \in LowerSet |->
               UpperLetters[CHOOSE i \in DOMAIN LowerLetters : LowerLetters[i] = c]]

\* two characters outside ASCII, each written by its code point: the capital I
\* with a dot above, and the combining dot above
DottedI == "U+0130"

\* the combining dot is a mark, not a cased character
IsCased(c) == c \in UpperSet \/ c \in LowerSet \/ c = DottedI

LowerChar(c) == IF c \in UpperSet THEN ToLower[c] ELSE c
UpperChar(c) == IF c \in LowerSet THEN ToUpper[c] ELSE c

\* the lower case of one character: of the dotted capital I it is two
\* characters, an i and the combining dot
LowerOf(c) == IF c = DottedI THEN <<"i", "U+0307">> ELSE <<LowerChar(c)>>

RECURSIVE Flatten(_)
Flatten(ss) == IF ss = <<>> THEN <<>> ELSE Head(ss) \o Flatten(Tail(ss))

HasDottedI(s) == \E i \in 1..Len(s) : s[i] = DottedI

\* str.lower()
StrLower(s) ==
    IF HasDottedI(s)
    THEN Flatten([i \in 1..Len(s) |-> LowerOf(s[i])])
    ELSE [i \in 1..Len(s) |-> LowerChar(s[i])]

English == <<"E", "n", "g", "l", "i", "s", "h">>
Hinglish == <<"H", "i", "n", "g", "l", "i", "s", "h">>

\* str.title(): a cased character is upper-cased when the character before it is
\* not cased (or there is none) and lower-cased otherwise
StrTitle(s) ==
    IF HasDottedI(s)
    THEN Flatten([i \in 1..Len(s) |->
            IF IsCased(s[i])
            THEN IF i > 1 /\ IsCased(s[i - 1]) THEN LowerOf(s[i]) ELSE <<UpperChar(s[i])>>
            ELSE <<s[i]>>])
    ELSE [i \in 1..Len(s) |->
            IF IsCased(s[i])
            THEN IF i > 1 /\ IsCased(s[i - 1]) THEN LowerChar(s[i]) ELSE UpperChar(s[i])
            ELSE s[i]]

Whitespace == {" ", "\n", "\t"}

\* str.strip(): drops the leading and the trailing whitespace
StrStrip(s) ==
    LET keep == {i \in 1..Len(s) : s[i] \notin Whitespace}
    IN  IF keep = {} THEN <<>>
        ELSE LET lo == CHOOSE i \in keep : \A j \in keep : i <= j
                 hi == CHOOSE i \in keep : \A j \in keep : j <= i
             IN  SubSeq(s, lo, hi)

\* len(text.split('\n'))
SplitLinesCount(text) == 1 + Cardinality({i \in 1..Len(text) : text[i] = "\n"})

(***************************************************************************)
(* Dicts.                                                                  *)
(***************************************************************************)
EmptyDict == <<>>

\* d[k] written where d.get(k, default) was meant: a KeyError on a missing key
DictIndex(d, k, default) ==
    IF k \in DOMAIN d THEN [ok |-> TRUE, val |-> d[k]]
                      ELSE [ok |-> FALSE, val |-> default]

\* d.get(k, default): never raises.  ok = FALSE stands for a KeyError.
DictGet(d, k, default) ==
    IF k \in DOMAIN d THEN [ok |-> TRUE, val |-> d[k]]
                      ELSE [ok |-> TRUE, val |-> default]

\* the dicts with at most the key k, its value drawn from vals
Opt(k, vals) == {EmptyDict} \cup {k :> v : v \in vals}

(***************************************************************************)
(* FewShotPosts.get_filtered_posts                                         *)
(***************************************************************************)
\* tag.lower() in [t.lower() for t in post_unified_tags]
TagMatches(tag, post_unified_tags) ==
    \E j \in 1..Len(post_unified_tags) :
        StrLower(post_unified_tags[j]) = StrLower(tag)

\* post_language.lower() == language.lower()
LanguageMatches(post_language, language) ==
    StrLower(post_language) = StrLower(language)

\* the boundaries of Post.length_category used in place of the selector's
LengthMatchesPostRule(length_category, line_count) ==
    IF length_category = "Short" /\ line_count < 5 THEN TRUE
    ELSE IF length_category = "Medium" /\ 5 <= line_count /\ line_count <= 10 THEN TRUE
    ELSE IF length_category = "Long" /\ line_count > 10 THEN TRUE
    ELSE FALSE

\* the chain with the Long branch left open above, as Post.length_category leaves it
LengthMatchesOpenLong(length_category, line_count) ==
    IF length_category = "Short" /\ 1 <= line_count /\ line_count <= 5 THEN TRUE
    ELSE IF length_category = "Medium" /\ 6 <= line_count /\ line_count <= 10 THEN TRUE
    ELSE IF length_category = "Long" /\ 11 <= line_count THEN TRUE
    ELSE FALSE

\* the if / elif chain over the length category
LengthMatches(length_category, line_count) ==
    IF length_category = "Short" /\ 1 <= line_count /\ line_count <= 5 THEN TRUE
    ELSE IF length_category = "Medium" /\ 6 <= line_count /\ line_count <= 10 THEN TRUE
    ELSE IF length_category = "Long" /\ 11 <= line_count /\ line_count <= 15 THEN TRUE
    ELSE FALSE

\* the test of line 90 written "tag_matches or language_matches and length_matches"
PostCheckOr(post, args) ==
    LET meta == DictGet(post, "metadata", EmptyDict)
        post_unified_tags == DictGet(meta.val, "unified_tags", <<>>)
        post_language == DictGet(meta.val, "language", English)
        line_count == DictGet(meta.val, "line_count", 0)
    IN  [raised |-> FALSE,
         matches |-> \/ TagMatches(args.tag, post_unified_tags.val)
                     \/ /\ LanguageMatches(post_language.val, args.language)
                        /\ LengthMatches(args.length_category, line_count.val)]

\* one iteration of the loop body up to the test of line 90
PostCheck(post, args) ==
    LET meta == DictGet(post, "metadata", EmptyDict)
        m == IF meta.ok THEN meta.val ELSE EmptyDict
        post_unified_tags == DictGet(m, "unified_tags", <<>>)
        post_language == DictGet(m, "language", English)
        line_count == DictGet(m, "line_count", 0)
        ok == meta.ok /\ post_unified_tags.ok /\ post_language.ok /\ line_count.ok
    IN  [raised |-> ~ok,
         matches |-> /\ ok
                     /\ TagMatches(args.tag, post_unified_tags.val)
                     /\ LanguageMatches(post_language.val, args.language)
                     /\ LengthMatches(args.length_category, line_count.val)]

\* the loop of lines 67-95 from post i on; a post that matches is appended, and
\* the loop is left once len(filtered) >= max_examples
RECURSIVE FilterLoop(_, _, _, _)
FilterLoop(corpus, args, i, found) ==
    IF i > Len(corpus) THEN [raised |-> FALSE, value |-> found]
    ELSE LET c == PostCheck(corpus[i], args)
         IN  IF c.raised THEN [raised |-> TRUE, value |-> <<>>]
             ELSE IF c.matches
                  THEN LET found2 == Append(found, corpus[i])
                       IN  IF Len(found2) >= args.max_examples
                           THEN [raised |-> FALSE, value |-> found2]
                           ELSE FilterLoop(corpus, args, i + 1, found2)
                  ELSE FilterLoop(corpus, args, i + 1, found)

get_filtered_posts(corpus, args) == FilterLoop(corpus, args, 1, <<>>)

(***************************************************************************)
(* llm_service.get_groq_client                                             *)
(***************************************************************************)
\* the test of line 36 left out: a client is constructed at every call
get_groq_client_uncached(client, api_key, ctor_ok) ==
    IF api_key = ""
    THEN [raised |-> "ValueError", client |-> client, built |-> FALSE]
    ELSE IF ctor_ok
         THEN [raised |-> "", client |-> "client", built |-> TRUE]
         ELSE [raised |-> "Exception", client |-> client, built |-> FALSE]

\* ctor_ok: whether the ChatGroq constructor returns rather than raises;
\* built: whether this call constructed a ChatGroq
get_groq_client(client, api_key, ctor_ok) ==
    IF client = "None"
    THEN IF api_key = ""
         THEN [raised |-> "ValueError", client |-> client, built |-> FALSE]
         ELSE IF ctor_ok
              THEN [raised |-> "", client |-> "client", built |-> TRUE]
              ELSE [raised |-> "Exception", client |-> client, built |-> FALSE]
    ELSE [raised |-> "", client |-> client, built |-> FALSE]

\* _llm_client = None
reset_llm_client(client) == "None"

(***************************************************************************)
(* preprocessing_service: the tags of a post                               *)
(***************************************************************************)
\* a JSON null
PyNone == <<"None">>

\* d[k] = v
SetKey(d, k, v) == (k :> v) @@ d

\* topic.strip().title()
NormTopic(topic) == StrTitle(StrStrip(topic))

\* ht.replace('#', '').strip().title(): replace drops every '#'
NormHashtag(ht) == StrTitle(StrStrip(SelectSeq(ht, LAMBDA c : c # "#")))

\* None has no strip()
TopicRaises(meta) == "topic" \in DOMAIN meta /\ meta["topic"] = PyNone

TopicTags(meta) ==
    IF "topic" \in DOMAIN meta THEN {NormTopic(meta["topic"])} ELSE {}

HashtagTags(meta) ==
    IF "hashtags" \in DOMAIN meta
    THEN {NormHashtag(meta["hashtags"][j]) : j \in 1..Len(meta["hashtags"])}
    ELSE {}

\* the tags a post adds to a set: its topic and its hashtags, normalized
PostTags(meta) == TopicTags(meta) \cup HashtagTags(meta)

\* the set of the members of a list
ListSet(l) == {l[j] : j \in 1..Len(l)}

\* the orders in which a set may be iterated
Orders(S) == {o \in [1..Cardinality(S) -> S] : \A a, b \in 1..Cardinality(S) : o[a] = o[b] => a = b}

\* list(dict.fromkeys(l)): the first occurrence of each member, in order
RECURSIVE DedupFrom(_, _)
DedupFrom(l, seen) ==
    IF l = <<>> THEN <<>>
    ELSE IF Head(l) \in seen THEN DedupFrom(Tail(l), seen)
         ELSE <<Head(l)>> \o DedupFrom(Tail(l), seen \cup {Head(l)})

\* the values of the posts and of their metadata dicts, as json.dump writes them
DeepPosts(pobjs, mobjs, refs) ==
    [i \in 1..Len(refs) |->
        IF "metadata" \in DOMAIN pobjs[refs[i]]
        THEN SetKey(pobjs[refs[i]], "metadata", mobjs[pobjs[refs[i]]["metadata"]])
        ELSE pobjs[refs[i]]]

\* a copy that leaves the engagement of the post behind
PostCopyNoEngagement(pobjs, ref, fresh) ==
    [objs |-> (fresh :> [k \in DOMAIN pobjs[ref] \ {"engagement"} |-> pobjs[ref][k]]) @@ pobjs,
     ref |-> fresh]

\* post.copy(): a new dict with the same values, the metadata dict shared
PostCopy(pobjs, ref, fresh) ==
    [objs |-> (fresh :> pobjs[ref]) @@ pobjs, ref |-> fresh]

DefaultEngagement == [likes |-> 0, comments |-> 0, shares |-> 0]

(***************************************************************************)
(* preprocessing_service.get_unified_tags                                  *)
(***************************************************************************)
\* JsonOutputParser().parse(response.content): only a bare JSON text parses
JsonOutputParserParse(resp) ==
    IF resp.kind = "json" THEN [ok |-> TRUE, val |-> resp.obj]
                          ELSE [ok |-> FALSE, val |-> EmptyDict]

\* json.loads(extract_json_from_text(response.content)): the text from the first
\* '{' to the last '}' parses when the answer holds a JSON object
LoadsExtracted(resp) ==
    IF resp.kind \in {"json", "prose"} THEN [ok |-> TRUE, val |-> resp.obj]
                                       ELSE [ok |-> FALSE, val |-> EmptyDict]

\* {tag: tag.title() for tag in tags_list_or_set}
FallbackMapping(tags) == [t \in tags |-> StrTitle(t)]

\* what the try block returns for the answer resp of chain.invoke
UnifiedTagsResult(resp, tags) ==
    IF resp.kind = "error" THEN FallbackMapping(tags)
    ELSE LET strict == JsonOutputParserParse(resp)
         IN  IF strict.ok THEN strict.val
             ELSE LET extracted == LoadsExtracted(resp)
                  IN  IF extracted.ok THEN extracted.val ELSE FallbackMapping(tags)

(***************************************************************************)
(* The parts of the state a specification leaves alone.                    *)
(***************************************************************************)
NoArgs == [length_category |-> "", language |-> <<>>, tag |-> <<>>, max_examples |-> 0]

\* FewShotPosts with nothing loaded and never called
SelIdle ==
    /\ posts = <<>>
    /\ sel_args = NoArgs
    /\ filtered = <<>>
    /\ sel_raised = FALSE
    /\ sel_pc = "idle"

\* llm_service as imported: no key, no client
LlmIdle ==
    /\ groq_api_key = ""
    /\ llm_client = "None"

\* process_posts never called
BuildIdle ==
    /\ data_kind = "list"
    /\ dataset_info_categories = <<>>
    /\ post_objs = EmptyDict
    /\ meta_objs = EmptyDict
    /\ original_posts = <<>>
    /\ enriched_posts = <<>>
    /\ input_before = <<>>
    /\ candidates = {}
    /\ unified_tags_mapping = EmptyDict
    /\ llm_calls = 0
    /\ llm_outcome = "none"
    /\ build_raised = ""
    /\ processed_file = <<>>
    /\ bpc = "off"

\* get_tags never called, no categories loaded
TagIdle ==
    /\ categories = <<>>
    /\ tags_returned = <<>>
    /\ tags_raised = FALSE
    /\ tags_pc = "idle"

\* no Post constructed
PostIdle ==
    /\ post_args = <<>>
    /\ built_post = <<>>
    /\ score_returned = 0
    /\ quality_metrics = <<>>
    /\ post_raised = ""
    /\ text_verdict = <<>>
    /\ post_pc = "off"

\* no PostGenerationRequest constructed
ReqIdle ==
    /\ req_args = <<>>
    /\ request = <<>>
    /\ req_raised = ""
    /\ req_pc = "off"

\* no processed file watched
PubIdle ==
    /\ disk_file = <<>>
    /\ previous_data = <<>>
    /\ output_data = <<>>
    /\ write_pc = "off"
    /\ loaded = <<>>
    /\ reader_pc = "off"

\* the calls of llm_service not recorded
CallIdle ==
    /\ llm_built = 0
    /\ llm_built_since_reset = 0
    /\ llm_instance = 0
    /\ llm_first = 0
    /\ llm_last = <<>>
    /\ llm_ops = 0

(***************************************************************************)
(* The corpora and requests the selector is run on.                        *)
(***************************************************************************)
TagAI == <<"A", "I">>
TagAi == <<"A", "i">>
TagGo == <<"G", "o">>
SomeText == <<"x">>

SmallDocs ==
    {"text" :> SomeText}
    \cup {("text" :> SomeText) @@ ("metadata" :> (a @@ b @@ c)) :
              a \in Opt("unified_tags", {<<TagAI>>, <<TagGo, TagAi>>}),
              b \in Opt("language", {<<"h", "i", "n", "g", "l", "i", "s", "h">>}),
              c \in Opt("line_count", {3})}

WideDocs ==
    {("text" :> SomeText) @@ ("metadata" :> (("unified_tags" :> <<TagAi>>) @@ b @@ c)) :
        b \in Opt("language", {English}),
        c \in Opt("line_count", 0..MaxLineCount)}

SeqsUpTo(S, n) == UNION {[1..k -> S] : k \in 0..n}

Requests ==
    [length_category : {"Short", "Medium", "Long"},
     language : {English, Hinglish},
     tag : {<<"a", "i">>, TagGo},
     max_examples : 0..MaxExamples]

SelInit ==
    /\ posts \in (SeqsUpTo(SmallDocs, MaxPosts) \cup {<<d>> : d \in WideDocs})
    /\ sel_args = NoArgs
    /\ filtered = <<>>
    /\ sel_raised = FALSE
    /\ sel_pc = "idle"
    /\ LlmIdle
    /\ BuildIdle
    /\ TagIdle
    /\ PostIdle
    /\ ReqIdle
    /\ PubIdle
    /\ CallIdle

\* a call of get_filtered_posts on the loaded corpus; the call leaves self.posts
\* as it was, so a later call starts from the state the first one started from
Select ==
    /\ sel_pc = "idle"
    /\ \E args \in Requests :
        LET r == get_filtered_posts(posts, args)
        IN  /\ sel_args' = args
            /\ filtered' = r.value
            /\ sel_raised' = r.raised
            /\ sel_pc' = "done"
            /\ UNCHANGED <<posts, llmVars, buildVars, tagVars, postVars, extVars>>

SpecSelect == SelInit /\ [][Select]_vars

(***************************************************************************)
(* The processed file: json.dump writes it, FewShotPosts._load_data reads  *)
(* it.  The text of the file is a sequence of pieces, a bracket, a post or *)
(* the dataset_info object each being one piece.                           *)
(***************************************************************************)
ListPieces(l) ==
    <<[t |-> "["]>> \o [i \in 1..Len(l) |-> [t |-> "post", v |-> l[i]]] \o <<[t |-> "]"]>>

\* json.dump(output_data, outfile, indent=4): the text in the order it is written
JsonPieces(output) ==
    IF output.kind = "list" THEN ListPieces(output.posts)
    ELSE <<[t |-> "{"], [t |-> "dataset_info", v |-> output.categories]>>
         \o ListPieces(output.posts) \o <<[t |-> "}"]>>

\* whether the pieces are the whole text of a JSON list of posts
IsListText(p) ==
    /\ Len(p) >= 2
    /\ p[1].t = "["
    /\ p[Len(p)].t = "]"
    /\ \A i \in 2..(Len(p) - 1) : p[i].t = "post"

ListValue(p) == [i \in 1..(Len(p) - 2) |-> p[i + 1].v]

\* json.load(f): the value of a whole text, JSONDecodeError for anything else
json_load(p) ==
    IF IsListText(p)
    THEN [raised |-> "", kind |-> "list", posts |-> ListValue(p), categories |-> <<>>]
    ELSE IF /\ Len(p) >= 4
            /\ p[1].t = "{"
            /\ p[2].t = "dataset_info"
            /\ p[Len(p)].t = "}"
            /\ IsListText(SubSeq(p, 3, Len(p) - 1))
         THEN [raised |-> "", kind |-> "dict",
               posts |-> ListValue(SubSeq(p, 3, Len(p) - 1)), categories |-> p[2].v]
         ELSE [raised |-> "JSONDecodeError", kind |-> "", posts |-> <<>>,
               categories |-> <<>>]

\* FewShotPosts._load_data: self.posts and self.categories once it returns
load_data(file) ==
    IF ~file.exists
    THEN [posts |-> <<>>, categories |-> <<>>, outcome |-> "missing"]
    ELSE LET loaded_json == json_load(file.pieces)
         IN  IF loaded_json.raised # ""
             THEN [posts |-> <<>>, categories |-> <<>>, outcome |-> loaded_json.raised]
             ELSE IF loaded_json.kind = "list"
                  THEN [posts |-> loaded_json.posts, categories |-> <<>>, outcome |-> "ok"]
                  ELSE [posts |-> loaded_json.posts,
                        categories |-> loaded_json.categories, outcome |-> "ok"]

\* the file as a finished write leaves it
WholeFile(output) == [exists |-> TRUE, pieces |-> JsonPieces(output)]

(***************************************************************************)
(* process_posts: the raw corpora it is run on.                            *)
(***************************************************************************)
TextOneLine == <<"a">>
HashAI == <<"#", "A", "I">>

RawDocs ==
    {("text" :> <<"a", "\n", "b">>) @@ ("metadata" :> (a @@ b)) :
        a \in Opt("topic", {<<" ", "a", "i">>, PyNone}),
        b \in Opt("hashtags", {<<<<"#", "G", "o">>, HashAI>>})}
    \cup {"text" :> TextOneLine,
          "metadata" :> ("topic" :> TagGo),
          ("text" :> TextOneLine)
              @@ ("metadata" :> (("hashtags" :> <<>>) @@ ("language" :> Hinglish))),
          ("text" :> TextOneLine)
              @@ ("metadata" :> (("topic" :> TagGo)
                                 @@ ("hashtags" :> <<<<"#", "d", DottedI, "l">>>>)
                                 @@ ("language" :> Hinglish))),
          ("text" :> TextOneLine)
              @@ ("metadata" :> (("topic" :> TagAi) @@ ("hashtags" :> <<HashAI>>)))
              @@ ("engagement" :> [likes |-> 1, comments |-> 0, shares |-> 0])}

\* what chain.invoke may do: raise, or answer garbage, a JSON object, or a JSON
\* object with prose around it; the JSON objects are over all the tags or all
\* but one, their labels title-cased or ones str.title() would not produce
Responses(tags) ==
    LET Ks == {tags} \cup {tags \ {t} : t \in tags}
        Payloads == {[k \in K |-> StrTitle(k)] : K \in Ks}
                    \cup {[k \in K |-> l] : K \in Ks, l \in {TagAI, <<>>}}
    IN  {[kind |-> "error", obj |-> EmptyDict], [kind |-> "garbage", obj |-> EmptyDict]}
        \cup [kind : {"json", "prose"}, obj : Payloads]

BuildInit ==
    /\ SelIdle
    /\ TagIdle
    /\ PostIdle
    /\ ReqIdle
    /\ PubIdle
    /\ CallIdle
    /\ groq_api_key \in {"", "key"}
    /\ llm_client = "None"
    /\ \E corpus \in SeqsUpTo(RawDocs, MaxRaw),
          shape \in {[kind |-> "list", categories |-> <<>>],
                     [kind |-> "dict", categories |-> <<>>],
                     [kind |-> "dict", categories |-> <<TagAI>>]} :
        /\ data_kind = shape.kind
        /\ dataset_info_categories = shape.categories
        /\ original_posts = [i \in 1..Len(corpus) |-> i]
        /\ post_objs = [i \in 1..Len(corpus) |->
                            IF "metadata" \in DOMAIN corpus[i]
                            THEN SetKey(corpus[i], "metadata", i) ELSE corpus[i]]
        /\ meta_objs = [i \in {j \in 1..Len(corpus) : "metadata" \in DOMAIN corpus[j]}
                           |-> corpus[i]["metadata"]]
        /\ input_before = corpus
    /\ enriched_posts = <<>>
    /\ candidates = {}
    /\ unified_tags_mapping = EmptyDict
    /\ llm_calls = 0
    /\ llm_outcome = "none"
    /\ build_raised = ""
    /\ processed_file = <<>>
    /\ bpc = "collect"

\* the test of line 63 left out: the collaborator is asked whatever the set holds
NeedsUnificationAlways(tags) == TRUE

\* if all_unique_tags_for_unification:
NeedsUnification(tags) == tags # {}

\* the metadata dict of raw post i, EmptyDict when it has none
RawMeta(i) ==
    IF "metadata" \in DOMAIN post_objs[original_posts[i]]
    THEN meta_objs[post_objs[original_posts[i]]["metadata"]]
    ELSE EmptyDict

\* lines 48-59: collect the topics, hashtags and categories
Collect ==
    /\ bpc = "collect"
    /\ IF \E i \in 1..Len(original_posts) : TopicRaises(RawMeta(i))
       THEN /\ build_raised' = "AttributeError"
            /\ bpc' = "failed"
            /\ UNCHANGED candidates
       ELSE /\ candidates' = ListSet(dataset_info_categories)
                             \cup UNION {PostTags(RawMeta(i)) : i \in 1..Len(original_posts)}
            /\ bpc' = "unify"
            /\ UNCHANGED build_raised
    /\ UNCHANGED <<extVars, tagVars, postVars, selVars, llmVars, data_kind, dataset_info_categories,
                   post_objs, meta_objs,
                   original_posts, enriched_posts, input_before, unified_tags_mapping,
                   llm_calls, llm_outcome, processed_file>>

\* lines 62-69, the else branch: nothing to unify
UnifySkip ==
    /\ bpc = "unify"
    /\ ~NeedsUnification(candidates)
    /\ unified_tags_mapping' = EmptyDict
    /\ bpc' = "enrich"
    /\ UNCHANGED <<extVars, tagVars, postVars, selVars, llmVars, data_kind, dataset_info_categories,
                   post_objs, meta_objs,
                   original_posts, enriched_posts, input_before, candidates, llm_calls,
                   llm_outcome, build_raised, processed_file>>

\* get_unified_tags up to chain.invoke: line 221 builds the chain outside the try
\* block, so what get_groq_client raises leaves get_unified_tags and process_posts
UnifyCall ==
    /\ bpc = "unify"
    /\ NeedsUnification(candidates)
    /\ \E ctor_ok \in BOOLEAN :
        LET c == get_groq_client(llm_client, groq_api_key, ctor_ok)
        IN  /\ llm_client' = c.client
            /\ IF c.raised # ""
               THEN /\ build_raised' = c.raised
                    /\ llm_outcome' = "no_client"
                    /\ bpc' = "failed"
                    /\ UNCHANGED llm_calls
               ELSE /\ llm_calls' = llm_calls + 1
                    /\ bpc' = "waiting"
                    /\ UNCHANGED <<build_raised, llm_outcome>>
    /\ UNCHANGED <<extVars, tagVars, postVars, selVars, groq_api_key, data_kind,
                   dataset_info_categories, post_objs,
                   meta_objs, original_posts, enriched_posts, input_before, candidates,
                   unified_tags_mapping, processed_file>>

\* lines 222-234: chain.invoke ends and its answer is parsed
UnifyReturn ==
    /\ bpc = "waiting"
    /\ \E resp \in Responses(candidates) :
        /\ unified_tags_mapping' = UnifiedTagsResult(resp, candidates)
        /\ llm_outcome' = CASE resp.kind = "error" -> "call_failed"
                            [] resp.kind = "garbage" -> "unparseable"
                            [] OTHER -> "parsed"
    /\ bpc' = "enrich"
    /\ UNCHANGED <<extVars, tagVars, postVars, selVars, llmVars, data_kind, dataset_info_categories,
                   post_objs, meta_objs,
                   original_posts, enriched_posts, input_before, candidates, llm_calls,
                   build_raised, processed_file>>

\* the language left as the raw document supplied it
HardcodeLanguageIfMissing(meta) ==
    IF "language" \in DOMAIN meta THEN meta ELSE SetKey(meta, "language", English)

\* current_post['metadata']['language'] = "English"
HardcodeLanguage(meta) == SetKey(meta, "language", English)

\* lines 72-109: one iteration of the loop over original_posts
EnrichPost ==
    /\ bpc = "enrich"
    /\ Len(enriched_posts) < Len(original_posts)
    /\ LET i == Len(enriched_posts) + 1
           fresh == Len(original_posts) + i
           cp == PostCopy(post_objs, original_posts[i], fresh)
           cur == cp.ref
           has_meta == "metadata" \in DOMAIN cp.objs[cur]
           mref == IF has_meta THEN cp.objs[cur]["metadata"] ELSE fresh
           objs2 == IF has_meta THEN cp.objs
                    ELSE [cp.objs EXCEPT ![cur] = SetKey(@, "metadata", fresh)]
           metas1 == IF has_meta THEN meta_objs ELSE (fresh :> EmptyDict) @@ meta_objs
       IN  IF "text" \notin DOMAIN objs2[cur]
           THEN /\ build_raised' = "KeyError"
                /\ bpc' = "failed"
                /\ post_objs' = objs2
                /\ meta_objs' = metas1
                /\ UNCHANGED enriched_posts
           ELSE LET m1 == SetKey(metas1[mref], "line_count",
                                 SplitLinesCount(objs2[cur]["text"]))
                    m2 == HardcodeLanguage(m1)
                IN  IF TopicRaises(m2)
                    THEN /\ build_raised' = "AttributeError"
                         /\ bpc' = "failed"
                         /\ post_objs' = objs2
                         /\ meta_objs' = [metas1 EXCEPT ![mref] = m2]
                         /\ UNCHANGED enriched_posts
                    ELSE \E order \in Orders(PostTags(m2)) :
                        LET processed == [j \in 1..Len(order) |->
                                DictGet(unified_tags_mapping, order[j], order[j]).val]
                            m3 == SetKey(m2, "unified_tags", DedupFrom(processed, {}))
                        IN  /\ meta_objs' = [metas1 EXCEPT ![mref] = m3]
                            /\ post_objs' =
                                   IF "engagement" \notin DOMAIN objs2[cur]
                                   THEN [objs2 EXCEPT
                                            ![cur] = SetKey(@, "engagement", DefaultEngagement)]
                                   ELSE objs2
                            /\ enriched_posts' = Append(enriched_posts, cur)
                            /\ UNCHANGED <<build_raised, bpc>>
    /\ UNCHANGED <<extVars, tagVars, postVars, selVars, llmVars, data_kind, dataset_info_categories,
                   original_posts,
                   input_before, candidates, unified_tags_mapping, llm_calls, llm_outcome,
                   processed_file>>

\* lines 115-129: the output is assembled and written
WriteOutput ==
    /\ bpc = "enrich"
    /\ Len(enriched_posts) = Len(original_posts)
    /\ processed_file' = [kind |-> data_kind,
                          categories |-> dataset_info_categories,
                          posts |-> DeepPosts(post_objs, meta_objs, enriched_posts)]
    /\ bpc' = "done"
    /\ UNCHANGED <<extVars, tagVars, postVars, selVars, llmVars, data_kind, dataset_info_categories,
                   post_objs, meta_objs,
                   original_posts, enriched_posts, input_before, candidates,
                   unified_tags_mapping, llm_calls, llm_outcome, build_raised>>

\* FewShotPosts(processed_file_path).get_filtered_posts(...) once the file is written
SelectEnriched ==
    /\ bpc = "done"
    /\ sel_pc = "idle"
    /\ \E args \in {r \in Requests : r.max_examples = MaxExamples} :
        LET fs == load_data(WholeFile(processed_file))
            r == get_filtered_posts(fs.posts, args)
        IN  /\ posts' = fs.posts
            /\ sel_args' = args
            /\ filtered' = r.value
            /\ sel_raised' = r.raised
            /\ sel_pc' = "done"
    /\ UNCHANGED <<extVars, tagVars, postVars, llmVars, buildVars>>

BuildNext ==
    \/ Collect
    \/ UnifySkip
    \/ UnifyCall
    \/ UnifyReturn
    \/ EnrichPost
    \/ WriteOutput
    \/ SelectEnriched

SpecBuild == BuildInit /\ [][BuildNext]_vars

\* process_posts is one thread that keeps running: its next step is taken once
\* it can be.  Nothing makes chain.invoke end: ChatGroq is constructed with no
\* timeout (lines 45-48 of llm_service) and chain.invoke is called with none
\* (line 223), so UnifyReturn, the collaborator's answer, has no fairness
\* condition.
SpecBuildFair ==
    /\ BuildInit
    /\ [][BuildNext]_vars
    /\ WF_vars(Collect \/ UnifySkip \/ UnifyCall \/ EnrichPost \/ WriteOutput)

(***************************************************************************)
(* FewShotPosts.get_tags                                                   *)
(***************************************************************************)
\* the characters tags are written with, in code point order
CodeOrder == <<" ", "#", "&">> \o UpperLetters \o <<"_">> \o LowerLetters

Ord == [c \in ListSet(CodeOrder) |-> CHOOSE i \in DOMAIN CodeOrder : CodeOrder[i] = c]

\* a < b on str: the first differing character decides, a proper prefix is less
RECURSIVE StrLess(_, _)
StrLess(a, b) ==
    IF b = <<>> THEN FALSE
    ELSE IF a = <<>> THEN TRUE
    ELSE IF Head(a) # Head(b) THEN Ord[Head(a)] < Ord[Head(b)]
    ELSE StrLess(Tail(a), Tail(b))

\* sorted(list(S)) of a set of str
RECURSIVE Sorted(_)
Sorted(S) ==
    IF S = {} THEN <<>>
    ELSE LET least == CHOOSE x \in S : \A y \in S \ {x} : StrLess(x, y)
         IN  <<least>> \o Sorted(S \ {least})

\* the test of line 58 cut short: only the metadata key is looked for
PostHasMetadata(p) == "metadata" \in DOMAIN p

\* if 'metadata' in post and 'unified_tags' in post['metadata']:
PostHasUnifiedTags(p) == "metadata" \in DOMAIN p /\ "unified_tags" \in DOMAIN p["metadata"]

\* the loop of lines 57-60 from post i on, all_tags holding what was added so far
RECURSIVE TagsLoop(_, _, _)
TagsLoop(corpus, i, all_tags) ==
    IF i > Len(corpus) THEN [raised |-> FALSE, value |-> Sorted(all_tags)]
    ELSE IF ~PostHasUnifiedTags(corpus[i]) THEN TagsLoop(corpus, i + 1, all_tags)
    ELSE LET p == corpus[i]
             \* post['metadata']['unified_tags']
             t == IF "metadata" \in DOMAIN p /\ "unified_tags" \in DOMAIN p["metadata"]
                  THEN [ok |-> TRUE, val |-> p["metadata"]["unified_tags"]]
                  ELSE [ok |-> FALSE, val |-> <<>>]
         IN  IF ~t.ok THEN [raised |-> TRUE, value |-> <<>>]
             ELSE TagsLoop(corpus, i + 1, all_tags \cup ListSet(t.val))

get_tags(corpus, cats) == TagsLoop(corpus, 1, ListSet(cats))

(***************************************************************************)
(* The corpora and categories get_tags is run on.                          *)
(***************************************************************************)

TagDocs ==
    {"text" :> SomeText,
     ("text" :> SomeText) @@ ("metadata" :> ("language" :> English)),
     ("text" :> SomeText) @@ ("metadata" :> ("unified_tags" :> <<>>)),
     ("text" :> SomeText) @@ ("metadata" :> ("unified_tags" :> <<TagGo, TagAI>>)),
     ("text" :> SomeText) @@ ("metadata" :> ("unified_tags" :> <<<<"a", "i">>, TagAi, TagAi>>)),
     ("text" :> SomeText)
         @@ ("metadata" :> ("unified_tags"
                 :> <<<<"_", "x">>, <<"A", "I", " ", "&", " ", "G", "o">>>>))}

TagInit ==
    /\ posts \in (SeqsUpTo(TagDocs, MaxPosts))
    /\ sel_args = NoArgs
    /\ filtered = <<>>
    /\ sel_raised = FALSE
    /\ sel_pc = "idle"
    /\ categories \in {<<>>, <<TagAI>>, <<TagGo, TagAI>>, <<TagGo, TagGo>>, <<<<"a", "i">>, <<>>>>}
    /\ tags_returned = <<>>
    /\ tags_raised = FALSE
    /\ tags_pc = "idle"
    /\ LlmIdle
    /\ BuildIdle
    /\ PostIdle
    /\ ReqIdle
    /\ PubIdle
    /\ CallIdle

\* a call of get_tags on the loaded corpus and categories
GetTags ==
    /\ tags_pc = "idle"
    /\ LET r == get_tags(posts, categories)
       IN  /\ tags_returned' = r.value
           /\ tags_raised' = r.raised
    /\ tags_pc' = "done"
    /\ UNCHANGED <<extVars, selVars, llmVars, buildVars, postVars, categories>>

SpecTags == TagInit /\ [][GetTags]_vars

(***************************************************************************)
(* schemas/post.py: Post, PostMetadata and the properties of a Post.       *)
(* An Optional field is <<>> for None and <<v>> for the value v.           *)
(***************************************************************************)
Nil == <<>>
Some(v) == <<v>>

\* x is not None and is neither 0 nor empty
Truthy(o, empty) == o # Nil /\ o[1] # empty

\* len(text.split()): the maximal runs of characters that are not whitespace
SplitWordsCount(text) ==
    Cardinality({i \in 1..Len(text) :
                    text[i] \notin Whitespace /\ (i = 1 \/ text[i - 1] \in Whitespace)})

\* PostMetadata(): every Optional field None, hashtags an empty list
DefaultMetadata ==
    [topic |-> Nil, tone |-> Nil, word_count |-> Nil, estimated_engagement |-> Nil,
     hashtags |-> [kind |-> "list", items |-> <<>>], quality_score |-> Nil,
     line_count |-> Nil]

\* Post.__post_init__: the counts are filled in when they are None
PostInit(args) ==
    [text |-> args.text,
     metadata |-> [args.metadata EXCEPT
         !.line_count = IF @ = Nil THEN Some(SplitLinesCount(args.text)) ELSE @,
         !.word_count = IF @ = Nil THEN Some(SplitWordsCount(args.text)) ELSE @]]

\* x or d, for an Optional int
IntOr(o, d) == IF Truthy(o, 0) THEN o[1] ELSE d

Post_line_count(p) == IntOr(p.metadata.line_count, SplitLinesCount(p.text))

Post_word_count(p) == IntOr(p.metadata.word_count, SplitWordsCount(p.text))

\* len(self.metadata.hashtags): None has no len()
Post_hashtag_count(p) ==
    IF p.metadata.hashtags.kind = "None" THEN [raised |-> "TypeError", value |-> 0]
    ELSE [raised |-> "", value |-> Len(p.metadata.hashtags.items)]

\* w in s, for str
Contains(s, w) ==
    \E i \in 1..(Len(s) - Len(w) + 1) : \A j \in 1..Len(w) : s[i + j - 1] = w[j]

Post_has_question(p) == Contains(p.text, <<"?">>)

Post_has_exclamation(p) == Contains(p.text, <<"!">>)

\* the rule of the selector in its place: Short up to 5 lines, Medium from 6
length_category_of_selector(n) ==
    IF n <= 5 THEN "Short" ELSE IF n <= 10 THEN "Medium" ELSE "Long"

\* Post.length_category, of the value of self.line_count
length_category(n) ==
    IF n < 5 THEN "Short" ELSE IF 5 <= n /\ n <= 10 THEN "Medium" ELSE "Long"

Post_length_category(p) == length_category(Post_line_count(p))

(***************************************************************************)
(* utils/validators.py.  A score is counted in half points: 2.0 is 4.      *)
(***************************************************************************)
LogicalConnectors ==
    {<<"b", "e", "c", "a", "u", "s", "e">>,
     <<"h", "o", "w", "e", "v", "e", "r">>,
     <<"t", "h", "e", "r", "e", "f", "o", "r", "e">>,
     <<"m", "e", "a", "n", "w", "h", "i", "l", "e">>}

PersonalInsights ==
    {<<"t", "h", "i", "n", "k">>,
     <<"b", "e", "l", "i", "e", "v", "e">>,
     <<"s", "u", "g", "g", "e", "s", "t">>,
     <<"r", "e", "c", "o", "m", "m", "e", "n", "d">>}

PersonalExperience ==
    {<<"e", "x", "p", "e", "r", "i", "e", "n", "c", "e">>,
     <<"l", "e", "a", "r", "n", "e", "d">>,
     <<"d", "i", "s", "c", "o", "v", "e", "r", "e", "d">>,
     <<"f", "o", "u", "n", "d">>}

ActionableContent ==
    {<<"t", "i", "p", "s">>,
     <<"a", "d", "v", "i", "c", "e">>,
     <<"s", "t", "r", "a", "t", "e", "g", "i", "e", "s">>,
     <<"m", "e", "t", "h", "o", "d", "s">>}

professional_words ==
    {<<"p", "r", "o", "f", "e", "s", "s", "i", "o", "n", "a", "l">>,
     <<"i", "n", "d", "u", "s", "t", "r", "y">>,
     <<"b", "u", "s", "i", "n", "e", "s", "s">>,
     <<"c", "a", "r", "e", "e", "r">>,
     <<"l", "e", "a", "d", "e", "r", "s", "h", "i", "p">>,
     <<"s", "t", "r", "a", "t", "e", "g", "y">>}

\* the text as the keywords are looked for in it, with no lower(): as written
ContentTextAsWritten(text) == text

\* post.text.lower()
ContentText(text) == StrLower(text)

\* any(word in post.text.lower() for word in words)
AnyWordIn(words, text) == \E w \in words : Contains(ContentText(text), w)

\* the length score with 3.0 points for the sweet spot
LengthPointsGenerous(wc) ==
    IF 50 <= wc /\ wc <= 300 THEN 6
    ELSE IF (30 <= wc /\ wc < 50) \/ (300 < wc /\ wc <= 500) THEN 2
    ELSE 0

\* length score, lines 181-184
LengthPoints(wc) ==
    IF 50 <= wc /\ wc <= 300 THEN 4
    ELSE IF (30 <= wc /\ wc < 50) \/ (300 < wc /\ wc <= 500) THEN 2
    ELSE 0

\* the second branch taking points away for a post crowded with hashtags
HashtagQualityPenalty(n) ==
    IF 1 <= n /\ n <= 5 THEN 2 ELSE IF n > 5 THEN -2 ELSE 0

\* hashtag quality, lines 195-198
HashtagQualityPoints(n) ==
    IF 1 <= n /\ n <= 5 THEN 2 ELSE IF n > 5 THEN 1 ELSE 0

Points(cond, pts) == IF cond THEN pts ELSE 0

\* the sum of lines 178-220, before the cap, for a post with hc hashtags
ScoreSum(p, hc) ==
    LengthPoints(Post_word_count(p))
    + Points(Post_has_question(p), 2)
    + Points(Post_has_exclamation(p), 1)
    + Points(hc > 0, 1)
    + HashtagQualityPoints(hc)
    + Points(Post_line_count(p) >= 3, 2)
    + Points(Contains(p.text, <<"\n", "\n">>), 2)
    + Points(AnyWordIn(LogicalConnectors, p.text), 1)
    + Points(AnyWordIn(PersonalInsights, p.text), 1)
    + Points(AnyWordIn(PersonalExperience, p.text), 1)
    + Points(AnyWordIn(ActionableContent, p.text), 1)
    + Points(AnyWordIn(professional_words, p.text), 2)

\* calculate_post_quality_score: value is the score, hc the hashtag count it read;
\* the read of post.hashtag_count on line 192 raises when hashtags is None
calculate_post_quality_score(p) ==
    LET hc == Post_hashtag_count(p)
    IN  IF hc.raised # "" THEN [raised |-> hc.raised, value |-> 0, hc |-> 0]
        ELSE [raised |-> "",
              value |-> IF ScoreSum(p, hc.value) <= 20 THEN ScoreSum(p, hc.value) ELSE 20,
              hc |-> hc.value]

\* a ValidationError message and the value formatted into it
Msg(m, a) == [msg |-> m, arg |-> a]

Passed == Msg("", <<>>)

\* the length test made on the text as given, not on text.strip()
validate_post_text_unstripped(text) ==
    IF text = <<>> \/ StrStrip(text) = <<>> THEN Msg("Post text cannot be empty", <<>>)
    ELSE IF Len(text) < 10
         THEN Msg("Post text must be at least 10 characters long", <<>>)
    ELSE IF Len(text) > 3000 THEN Msg("Post text cannot exceed 3000 characters", <<>>)
    ELSE IF Cardinality({i \in 1..Len(text) : text[i] = "#"}) > 10
         THEN Msg("Post cannot have more than 10 hashtags", <<>>)
    ELSE Passed

\* validate_post_text: the message of the ValidationError raised, Passed for none
validate_post_text(text) ==
    IF text = <<>> \/ StrStrip(text) = <<>> THEN Msg("Post text cannot be empty", <<>>)
    ELSE IF Len(StrStrip(text)) < 10
         THEN Msg("Post text must be at least 10 characters long", <<>>)
    ELSE IF Len(text) > 3000 THEN Msg("Post text cannot exceed 3000 characters", <<>>)
    ELSE IF Cardinality({i \in 1..Len(text) : text[i] = "#"}) > 10
         THEN Msg("Post cannot have more than 10 hashtags", <<>>)
    ELSE Passed

\* [a-zA-Z0-9_]
WordChars ==
    UpperSet \cup LowerSet \cup {"0", "1", "2", "3", "4", "5", "6", "7", "8", "9"} \cup {"_"}

\* re.match(r'^#[a-zA-Z0-9_]+$', hashtag): $ also matches before a last newline
HashtagPatternMatches(h) ==
    LET last == IF h # <<>> /\ h[Len(h)] = "\n" THEN Len(h) - 1 ELSE Len(h)
    IN  /\ last >= 2
        /\ h[1] = "#"
        /\ \A i \in 2..last : h[i] \in WordChars

\* the checks of lines 60-71 on one hashtag
validate_hashtag(h) ==
    IF h = <<>> \/ h[1] # "#" THEN Msg("Hashtag must start with #", h)
    ELSE IF Len(h) < 2 THEN Msg("Hashtag is too short", h)
    ELSE IF Len(h) > 50 THEN Msg("Hashtag is too long", h)
    ELSE IF ~HashtagPatternMatches(h) THEN Msg("Hashtag contains invalid characters", h)
    ELSE Passed

\* validate_hashtags: the message of the first hashtag that fails
validate_hashtags(hashtags) ==
    IF hashtags.kind # "list" THEN Msg("Hashtags must be a list", <<>>)
    ELSE LET bad == {i \in 1..Len(hashtags.items) : validate_hashtag(hashtags.items[i]) # Passed}
         IN  IF bad = {} THEN Passed
             ELSE validate_hashtag(hashtags.items[CHOOSE i \in bad : \A j \in bad : i <= j])

AllowedTones ==
    {"professional", "casual", "formal", "friendly", "authoritative", "conversational",
     "inspirational", "educational", "analytical"}

EngagementLevels == {"low", "medium", "high", "very_high"}

\* the checks of the metadata with the one of the tone left out
validate_post_metadata_tone_unchecked(metadata) ==
    IF Truthy(metadata.topic, <<>>) /\ Len(metadata.topic[1]) > 100
    THEN Msg("Topic cannot exceed 100 characters", <<>>)
    ELSE IF Truthy(metadata.estimated_engagement, "")
            /\ metadata.estimated_engagement[1] \notin EngagementLevels
         THEN Msg("Invalid engagement level", metadata.estimated_engagement[1])
    ELSE IF Truthy(metadata.quality_score, 0)
            /\ ~(0 <= metadata.quality_score[1] /\ metadata.quality_score[1] <= 10)
         THEN Msg("Quality score must be between 0 and 10", <<>>)
    ELSE Passed

validate_post_metadata(metadata) ==
    IF Truthy(metadata.topic, <<>>) /\ Len(metadata.topic[1]) > 100
    THEN Msg("Topic cannot exceed 100 characters", <<>>)
    ELSE IF Truthy(metadata.tone, "") /\ metadata.tone[1] \notin AllowedTones
         THEN Msg("Invalid tone", metadata.tone[1])
    ELSE IF Truthy(metadata.estimated_engagement, "")
            /\ metadata.estimated_engagement[1] \notin EngagementLevels
         THEN Msg("Invalid engagement level", metadata.estimated_engagement[1])
    ELSE IF Truthy(metadata.quality_score, 0)
            /\ ~(0 <= metadata.quality_score[1] /\ metadata.quality_score[1] <= 10)
         THEN Msg("Quality score must be between 0 and 10", <<>>)
    ELSE Passed

\* quality_metrics as validate_post_quality sets it up, lines 116-122
EmptyReport ==
    [is_valid |-> TRUE, errors |-> <<>>, warnings |-> <<>>, score |-> 0, metrics |-> EmptyDict]

\* lines 125-133: the message of the first validation that raises
FirstError(p) ==
    IF validate_post_text(p.text) # Passed THEN validate_post_text(p.text)
    ELSE IF /\ p.metadata.hashtags.kind # "None"
            /\ p.metadata.hashtags.items # <<>>
            /\ validate_hashtags(p.metadata.hashtags) # Passed
         THEN validate_hashtags(p.metadata.hashtags)
    ELSE validate_post_metadata(p.metadata)

\* lines 140-147, for a post with hc hashtags
Metrics(p, hc) ==
    [word_count |-> Post_word_count(p), line_count |-> Post_line_count(p),
     hashtag_count |-> hc, has_question |-> Post_has_question(p),
     has_exclamation |-> Post_has_exclamation(p),
     length_category |-> Post_length_category(p)]

Warning(cond, text) == IF cond THEN <<text>> ELSE <<>>

\* lines 150-160
Warnings(p, hc) ==
    Warning(Post_word_count(p) < 50, "Post is quite short - consider adding more content")
    \o Warning(hc = 0, "No hashtags found - consider adding relevant hashtags")
    \o Warning(~Post_has_question(p) /\ ~Post_has_exclamation(p),
               "Post lacks engagement elements - consider adding questions or exclamations")
    \o Warning(Post_word_count(p) > 500, "Post is quite long - consider breaking it into multiple posts")

\* the score worked out ahead of the validations, so that a failed report carries it
validate_post_quality_scoring_first(p) ==
    LET s == calculate_post_quality_score(p)
    IN  IF s.raised # "" THEN [raised |-> s.raised, report |-> <<>>]
        ELSE IF FirstError(p) # Passed
        THEN [raised |-> "",
              report |-> [EmptyReport EXCEPT !.is_valid = FALSE, !.errors = <<FirstError(p)>>,
                                             !.score = s.value]]
        ELSE [raised |-> "",
              report |-> [is_valid |-> TRUE, errors |-> <<>>, warnings |-> Warnings(p, s.hc),
                          score |-> s.value, metrics |-> Metrics(p, s.hc)]]

\* validate_post_quality: a ValidationError is caught into the report, any other
\* exception leaves the call
validate_post_quality(p) ==
    IF FirstError(p) # Passed
    THEN [raised |-> "",
          report |-> [EmptyReport EXCEPT !.is_valid = FALSE, !.errors = <<FirstError(p)>>]]
    ELSE LET s == calculate_post_quality_score(p)
         IN  IF s.raised # "" THEN [raised |-> s.raised, report |-> <<>>]
             ELSE [raised |-> "",
                   report |-> [is_valid |-> TRUE, errors |-> <<>>,
                               warnings |-> Warnings(p, s.hc),
                               score |-> s.value, metrics |-> Metrics(p, s.hc)]]

(***************************************************************************)
(* The posts that are constructed, scored and assessed.                    *)
(***************************************************************************)
\* s written n times over
Repeat(s, n) == [i \in 1..(n * Len(s)) |-> s[((i - 1) % Len(s)) + 1]]

\* a text of n words that holds none of the keywords
WordsText(n) == Repeat(<<"a", "b", " ">>, n)

\* a text of n lines
LinesText(n) == Repeat(<<"l", "i", "n", "e", " ", "x", "\n">>, n - 1) \o <<"l", "a", "s", "t">>

\* a text with n '#' characters
HashText(n) == Repeat(<<"#", "a", " ">>, n) \o <<"e", "n", "d", " ", "o", "f", " ", "i", "t">>

TextWhy == <<"w", "h", "y", "?">>
TextTen == <<"a", "b", "c", "d", "e", "f", "g", "h", "i", "!">>

\* 60 words on 4 lines, a question mark, '#AI' once, no blank line, no keyword
ScenarioText ==
    <<"#", "A", "I", " ", "o", "k", "?", "\n">> \o WordsText(19) \o <<"\n">>
    \o WordsText(19) \o <<"\n">> \o WordsText(20)

\* 53 words on 4 lines with every signal of the score in it
FullText ==
    <<"b", "e", "c", "a", "u", "s", "e", " ", "t", "h", "i", "n", "k", " ",
      "l", "e", "a", "r", "n", "e", "d", " ", "t", "i", "p", "s", " ",
      "c", "a", "r", "e", "e", "r", " ", "?", " ", "!", "\n", "\n">>
    \o WordsText(45) \o <<"\n", "x">>

PostTexts ==
    {<<>>, <<" ", "\n">>, TextWhy, TextTen,
     <<" ", "a", "b", "c", "d", "e", "f", "g", "h", "i", "\n">>,
     <<"p", "a", "r", "a", " ", "o", "n", "e", "\n", "\n", "t", "w", "o">>,
     <<"I", " ", "T", "h", "i", "n", "k", " ", "s", "o", ".">>,
     HashText(11) \o WordsText(1000),
     <<"C", "A", "R", "E", "E", "R", " ", "t", "i", "p", "s", " ", "f", "o", "u", "n", "d">>,
     <<"s", "t", "r", "a", "t", "e", "g", "i", "e", "s", " ", "h", "o", "w", "e", "v", "e", "r">>,
     ScenarioText, FullText,
     HashText(10), HashText(11),
     WordsText(1000), WordsText(1000) \o <<"c">>}
    \cup {WordsText(n) : n \in {29, 30, 49, 50, 300, 301, 500, 501}}
    \cup {LinesText(n) : n \in {2, 3, 4, 5, 10, 11, MaxLineCount}}

ListOf(items) == [kind |-> "list", items |-> items]

\* PostMetadata(...) with the counts and the hashtags given
CountMetadatas ==
    {[DefaultMetadata EXCEPT !.word_count = w, !.line_count = l, !.hashtags = h] :
        w \in {Nil, Some(0), Some(60)},
        l \in {Nil, Some(0), Some(4), Some(5), Some(MaxLineCount)},
        h \in {ListOf(<<>>), ListOf(<<HashAI>>)}}

PostArgs ==
    [text : PostTexts, metadata : {DefaultMetadata}]
    \cup [text : {TextWhy, TextTen, ScenarioText, LinesText(5)}, metadata : CountMetadatas]
    \cup [text : {<<>>, TextWhy, TextTen, ScenarioText, FullText, HashText(11)},
          metadata :
              {[DefaultMetadata EXCEPT !.hashtags = h] :
                  h \in {ListOf(<<>>), ListOf(<<HashAI>>),
                         ListOf(<<HashAI, <<"#", "a", "_", "1">>>>),
                         ListOf([i \in 1..5 |-> HashAI]), ListOf([i \in 1..6 |-> HashAI]),
                         ListOf(<<HashAI, <<"A", "I">>, <<"#">>>>), ListOf(<<<<"#">>>>),
                         ListOf(<<<<>>>>), ListOf(<<<<"#", "a", " ", "b">>>>),
                         ListOf(<<<<"#", "a", "b", "\n">>>>), ListOf(<<<<"#", "\n">>>>),
                         ListOf(<<Repeat(<<"#">>, 1) \o Repeat(<<"a">>, 49)>>),
                         ListOf(<<Repeat(<<"#">>, 1) \o Repeat(<<"a">>, 50)>>),
                         [kind |-> "tuple", items |-> <<HashAI>>],
                         [kind |-> "tuple", items |-> <<>>],
                         [kind |-> "None", items |-> <<>>]}}]
    \cup [text : {TextWhy, TextTen},
          metadata :
              {[DefaultMetadata EXCEPT !.topic = t, !.tone = o, !.estimated_engagement = e,
                                       !.quality_score = q] :
                  t \in {Nil, Some(Repeat(<<"t">>, 100)), Some(Repeat(<<"t">>, 101))},
                  o \in {Nil, Some(""), Some("casual"), Some("witty")},
                  e \in {Nil, Some(""), Some("high"), Some("viral")},
                  q \in {Nil, Some(0), Some(10), Some(11), Some(-1)}}]

PostInitState ==
    /\ SelIdle
    /\ LlmIdle
    /\ BuildIdle
    /\ TagIdle
    /\ ReqIdle
    /\ PubIdle
    /\ CallIdle
    /\ post_args \in PostArgs
    /\ built_post = <<>>
    /\ score_returned = 0
    /\ quality_metrics = <<>>
    /\ post_raised = ""
    /\ text_verdict = <<>>
    /\ post_pc = "new"

\* Post(id, text, metadata)
Construct ==
    /\ post_pc = "new"
    /\ built_post' = PostInit(post_args)
    /\ post_pc' = "built"
    /\ UNCHANGED <<extVars, selVars, llmVars, buildVars, tagVars, post_args, score_returned,
                   quality_metrics, post_raised, text_verdict>>

\* calculate_post_quality_score(post), once or again
Score ==
    /\ post_pc \in {"built", "scored"}
    /\ LET s == calculate_post_quality_score(built_post)
       IN  /\ score_returned' = s.value
           /\ post_raised' = s.raised
    /\ post_pc' = "scored"
    /\ UNCHANGED <<extVars, selVars, llmVars, buildVars, tagVars, post_args, built_post,
                   quality_metrics, text_verdict>>

\* validate_post_quality(post)
Assess ==
    /\ post_pc = "built"
    /\ LET r == validate_post_quality(built_post)
       IN  /\ quality_metrics' = r.report
           /\ post_raised' = r.raised
    /\ post_pc' = "assessed"
    /\ UNCHANGED <<extVars, selVars, llmVars, buildVars, tagVars, post_args, built_post,
                   score_returned, text_verdict>>

\* validate_post_text(post.text)
ValidateText ==
    /\ post_pc = "built"
    /\ text_verdict' = validate_post_text(built_post.text)
    /\ post_pc' = "text_checked"
    /\ UNCHANGED <<extVars, selVars, llmVars, buildVars, tagVars, post_args, built_post,
                   score_returned, quality_metrics, post_raised>>

PostNext ==
    \/ Construct
    \/ Score
    \/ Assess
    \/ ValidateText

SpecPost == PostInitState /\ [][PostNext]_vars

(***************************************************************************)
(* schemas/post.py: PostGenerationRequest                                  *)
(***************************************************************************)
\* if v not in ['Short', 'Medium', 'Long']: raise ValueError(...); return v
validate_length_category(v) ==
    IF v \notin {"Short", "Medium", "Long"}
    THEN [raised |-> "Invalid length category. Must be Short, Medium, or Long.", value |-> v]
    ELSE [raised |-> "", value |-> v]

\* if v not in ['English', 'Hinglish']: raise ValueError(...); return v
validate_language(v) ==
    IF v \notin {English, Hinglish}
    THEN [raised |-> "Invalid language. Must be English or Hinglish.", value |-> v]
    ELSE [raised |-> "", value |-> v]

\* the tag stored as it was given
validate_tag_untrimmed(v) ==
    IF v = <<>> \/ StrStrip(v) = <<>>
    THEN [raised |-> "Tag cannot be empty.", value |-> v]
    ELSE [raised |-> "", value |-> v]

\* if not v or not v.strip(): raise ValueError(...); return v.strip()
validate_tag(v) ==
    IF v = <<>> \/ StrStrip(v) = <<>>
    THEN [raised |-> "Tag cannot be empty.", value |-> v]
    ELSE [raised |-> "", value |-> StrStrip(v)]

\* PostGenerationRequest(**kw): every field validator runs, and one ValueError
\* (pydantic's ValidationError) carrying every failure leaves the constructor
\* when any of them raised
PostGenerationRequest(kw) ==
    LET l == validate_length_category(kw.length_category)
        g == validate_language(kw.language)
        t == validate_tag(kw.tag)
        failures == {r.raised : r \in {l, g, t}} \ {""}
    IN  IF failures # {}
        THEN [raised |-> "ValueError", failures |-> failures, value |-> Nil]
        ELSE [raised |-> "", failures |-> {},
              value |-> Some([length_category |-> l.value, language |-> g.value,
                              tag |-> t.value, max_retries |-> kw.max_retries])]

RequestInit ==
    /\ SelIdle
    /\ LlmIdle
    /\ BuildIdle
    /\ TagIdle
    /\ PostIdle
    /\ PubIdle
    /\ CallIdle
    /\ req_args \in
           [length_category : {"Short", "Medium", "Long", "ExtraLong", "short", ""},
            language : {English, Hinglish, <<"h", "i", "n", "g", "l", "i", "s", "h">>,
                        <<"S", "p", "a", "n", "i", "s", "h">>, <<>>},
            tag : {<<>>, <<" ">>, <<" ", "\n">>, TagAi, <<" ", "A", "i", "\t">>,
                   <<"A", "I", " ", "&", " ", "T", "e", "c", "h">>},
            max_retries : {3, 0}]
    /\ request = Nil
    /\ req_raised = ""
    /\ req_pc = "new"

\* request = PostGenerationRequest(length_category=..., language=..., tag=...)
ConstructRequest ==
    /\ req_pc = "new"
    /\ LET r == PostGenerationRequest(req_args)
       IN  /\ request' = r.value
           /\ req_raised' = r.raised
    /\ req_pc' = "done"
    /\ UNCHANGED <<selVars, llmVars, buildVars, tagVars, postVars, pubVars, callVars,
                   req_args>>

SpecRequest == RequestInit /\ [][ConstructRequest]_vars

(***************************************************************************)
(* A rebuild of the processed file and a reader of it.                     *)
(***************************************************************************)
EnrichedDocs ==
    {("text" :> TextOneLine)
         @@ ("metadata" :> (("unified_tags" :> <<TagAi>>) @@ ("language" :> English)
                            @@ ("line_count" :> 1))),
     ("text" :> <<"a", "\n", "b">>)
         @@ ("metadata" :> (("unified_tags" :> <<TagGo>>) @@ ("language" :> English)
                            @@ ("line_count" :> 2)))}

\* what a build may be about to write
Outputs ==
    [kind : {"list"}, categories : {<<>>}, posts : SeqsUpTo(EnrichedDocs, MaxPosts)]
    \cup [kind : {"dict"}, categories : {<<>>, <<TagAI>>},
          posts : SeqsUpTo(EnrichedDocs, MaxPosts)]

\* a build wrote previous_data; a rebuild has output_data in memory and is about
\* to reach line 124, while a FewShotPosts is about to be constructed
PublishInit ==
    /\ SelIdle
    /\ LlmIdle
    /\ BuildIdle
    /\ TagIdle
    /\ PostIdle
    /\ ReqIdle
    /\ CallIdle
    /\ previous_data \in Outputs
    /\ output_data \in Outputs
    /\ disk_file = WholeFile(previous_data)
    /\ write_pc = "built"
    /\ loaded = <<>>
    /\ reader_pc = "new"

\* line 125: open(processed_file_path, mode="w") truncates the file
OpenForWrite ==
    /\ write_pc = "built"
    /\ disk_file' = [exists |-> TRUE, pieces |-> <<>>]
    /\ write_pc' = "opened"
    /\ UNCHANGED <<selVars, llmVars, buildVars, tagVars, postVars, reqVars, callVars,
                   previous_data, output_data, loaded, reader_pc>>

\* line 126: json.dump writes piece after piece, and the buffer of the file is
\* flushed whenever it fills, leaving a longer beginning of the text on disk
FlushBuffer ==
    /\ write_pc = "opened"
    /\ \E k \in (Len(disk_file.pieces) + 1)..(Len(JsonPieces(output_data)) - 1) :
        disk_file' = [exists |-> TRUE, pieces |-> SubSeq(JsonPieces(output_data), 1, k)]
    /\ UNCHANGED <<selVars, llmVars, buildVars, tagVars, postVars, reqVars, callVars,
                   previous_data, output_data, write_pc, loaded, reader_pc>>

\* the with block ends: the rest of the text is flushed and the file closed
CloseFile ==
    /\ write_pc = "opened"
    /\ disk_file' = WholeFile(output_data)
    /\ write_pc' = "closed"
    /\ UNCHANGED <<selVars, llmVars, buildVars, tagVars, postVars, reqVars, callVars,
                   previous_data, output_data, loaded, reader_pc>>

\* FewShotPosts(data_path) in another process: _load_data reads the file as it is
LoadData ==
    /\ reader_pc = "new"
    /\ loaded' = load_data(disk_file)
    /\ reader_pc' = "loaded"
    /\ UNCHANGED <<selVars, llmVars, buildVars, tagVars, postVars, reqVars, callVars,
                   disk_file, previous_data, output_data, write_pc>>

PublishNext ==
    \/ OpenForWrite
    \/ FlushBuffer
    \/ CloseFile
    \/ LoadData

SpecPublish == PublishInit /\ [][PublishNext]_vars

(***************************************************************************)
(* llm_service: get_groq_client and reset_llm_client called in any order.  *)
(* The ChatGroq instances are numbered in the order they are constructed.  *)
(***************************************************************************)

CallInit ==
    /\ SelIdle
    /\ BuildIdle
    /\ TagIdle
    /\ PostIdle
    /\ ReqIdle
    /\ PubIdle
    /\ groq_api_key \in {"", "key"}
    /\ llm_client = "None"
    /\ llm_built = 0
    /\ llm_built_since_reset = 0
    /\ llm_instance = 0
    /\ llm_first = 0
    /\ llm_last = [op |-> "none", raised |-> "", returned |-> 0, built |-> FALSE]
    /\ llm_ops = 0

\* a call of get_groq_client()
GetClient ==
    /\ llm_ops < MaxCalls
    /\ \E ctor_ok \in BOOLEAN :
        LET c == get_groq_client(llm_client, groq_api_key, ctor_ok)
            stored == IF c.built THEN llm_built + 1
                      ELSE IF c.client = "None" THEN 0 ELSE llm_instance
            returned == IF c.raised = "" THEN stored ELSE 0
        IN  /\ llm_client' = c.client
            /\ llm_instance' = stored
            /\ llm_built' = IF c.built THEN llm_built + 1 ELSE llm_built
            /\ llm_built_since_reset' =
                   IF c.built THEN llm_built_since_reset + 1 ELSE llm_built_since_reset
            /\ llm_first' = IF c.raised = "" /\ llm_first = 0 THEN returned ELSE llm_first
            /\ llm_last' = [op |-> "get", raised |-> c.raised, returned |-> returned,
                            built |-> c.built]
    /\ llm_ops' = llm_ops + 1
    /\ UNCHANGED <<selVars, buildVars, tagVars, postVars, reqVars, pubVars, groq_api_key>>

\* a call of reset_llm_client()
ResetClient ==
    /\ llm_ops < MaxCalls
    /\ llm_client' = reset_llm_client(llm_client)
    /\ llm_instance' = 0
    /\ llm_built_since_reset' = 0
    /\ llm_first' = 0
    /\ llm_last' = [op |-> "reset", raised |-> "", returned |-> 0, built |-> FALSE]
    /\ llm_ops' = llm_ops + 1
    /\ UNCHANGED <<selVars, buildVars, tagVars, postVars, reqVars, pubVars, groq_api_key,
                   llm_built>>

CallNext == GetClient \/ ResetClient

SpecLlm == CallInit /\ [][CallNext]_vars

(***************************************************************************)
(* What the claims say of a document and a request, in the claims' words.  *)
(***************************************************************************)
HasMeta(doc, k) == "metadata" \in DOMAIN doc /\ k \in DOMAIN doc["metadata"]

ClaimTagMember(doc, tag) ==
    /\ HasMeta(doc, "unified_tags")
    /\ \E j \in 1..Len(doc["metadata"]["unified_tags"]) :
           StrLower(doc["metadata"]["unified_tags"][j]) = StrLower(tag)

ClaimLanguageOf(doc) ==
    IF HasMeta(doc, "language") THEN doc["metadata"]["language"] ELSE English

ClaimLanguageEqual(doc, language) ==
    StrLower(ClaimLanguageOf(doc)) = StrLower(language)

BucketRange(b) ==
    CASE b = "Short" -> 1..5
      [] b = "Medium" -> 6..10
      [] b = "Long" -> 11..15
      [] OTHER -> {}

ClaimInBucket(doc, b) ==
    HasMeta(doc, "line_count") /\ doc["metadata"]["line_count"] \in BucketRange(b)

ClaimSatisfies(doc, args) ==
    /\ ClaimTagMember(doc, args.tag)
    /\ ClaimLanguageEqual(doc, args.language)
    /\ ClaimInBucket(doc, args.length_category)

\* the subsequence of s whose elements satisfy the request, in the order of s
RECURSIVE MatchingSubseq(_, _)
MatchingSubseq(s, args) ==
    IF s = <<>> THEN <<>>
    ELSE IF ClaimSatisfies(Head(s), args)
         THEN <<Head(s)>> \o MatchingSubseq(Tail(s), args)
         ELSE MatchingSubseq(Tail(s), args)

FirstK(s, k) == SubSeq(s, 1, IF k < Len(s) THEN k ELSE Len(s))

\* C1: every document get_filtered_posts returns satisfies the three predicates at
\* once: tag membership and language equality, both case-insensitive and a missing
\* language counting as English, and the line count in the requested bucket.
C1_SelectConjunction ==
    sel_pc = "done" =>
        \A i \in 1..Len(filtered) : ClaimSatisfies(filtered[i], sel_args)

\* a returned document that has no language and whose tag differs in case
C1_Witness ==
    /\ sel_pc = "done"
    /\ Len(filtered) >= 1
    /\ ~HasMeta(filtered[1], "language")
    /\ sel_args.tag \notin {filtered[1]["metadata"]["unified_tags"][j] :
                              j \in 1..Len(filtered[1]["metadata"]["unified_tags"])}

\* C2: the returned sequence is never longer than max_examples, max_examples = 0
\* included.
C2_LengthAtMostMax ==
    sel_pc = "done" => Len(filtered) <= sel_args.max_examples

\* C3: the result is exactly the first max_examples elements of the subsequence of
\* matching documents, in corpus order.
C3_FirstKInOrder ==
    sel_pc = "done" =>
        filtered = FirstK(MatchingSubseq(posts, sel_args), sel_args.max_examples)

\* C4: with the tag and the language matching, a document is returned for bucket B
\* iff it has a line_count in B's inclusive range, Short 1..5, Medium 6..10,
\* Long 11..15; so 0, a missing line_count and more than 15 match no bucket, and
\* the ranges being disjoint no line count matches two buckets.
C4_BucketRanges ==
    (/\ sel_pc = "done"
     /\ Len(posts) = 1
     /\ ClaimTagMember(posts[1], sel_args.tag)
     /\ ClaimLanguageEqual(posts[1], sel_args.language))
    => (filtered = <<posts[1]>> <=> ClaimInBucket(posts[1], sel_args.length_category))

\* a 5-line document returned for Short
C4_Witness ==
    /\ sel_pc = "done"
    /\ Len(posts) = 1
    /\ HasMeta(posts[1], "line_count")
    /\ posts[1]["metadata"]["line_count"] = 5
    /\ sel_args.length_category = "Short"
    /\ filtered = posts

\* C5: get_filtered_posts never raises, whatever the documents lack, and returns
\* the empty sequence when no document satisfies the three predicates.
C5_SelectNeverFails ==
    sel_pc = "done" =>
        /\ ~sel_raised
        /\ (\A i \in 1..Len(posts) : ~ClaimSatisfies(posts[i], sel_args))
               => filtered = <<>>

\* Medium asked of a corpus with a document without metadata and none in 6..10
C5_Witness ==
    /\ sel_pc = "done"
    /\ sel_args.length_category = "Medium"
    /\ Len(posts) = 2
    /\ "metadata" \notin DOMAIN posts[1]
    /\ ~HasMeta(posts[2], "line_count")
    /\ ~sel_raised
    /\ filtered = <<>>

(***************************************************************************)
(* The claims about get_unified_tags and process_posts.                    *)
(***************************************************************************)
\* the exceptions get_groq_client raises
ClientErrors == {"ValueError", "Exception"}

\* C6: when the client cannot be obtained, the call fails or the answer parses in
\* neither stage, get_unified_tags raises nothing and returns the mapping of every
\* candidate to its title-cased self.
C6_IdentityFallback ==
    llm_outcome \in {"no_client", "call_failed", "unparseable"} =>
        /\ build_raised \notin ClientErrors
        /\ unified_tags_mapping = [t \in candidates |-> StrTitle(t)]

\* C7: whatever the collaborator did, the mapping get_unified_tags returned has
\* every candidate as a key.
C7_MappingTotal ==
    llm_outcome \in {"call_failed", "unparseable", "parsed"} =>
        candidates \subseteq DOMAIN unified_tags_mapping

\* C8: whatever the collaborator did, every value of the mapping get_unified_tags
\* returned is a non-empty title-cased string.
C8_ValuesTitleCased ==
    llm_outcome \in {"call_failed", "unparseable", "parsed"} =>
        \A k \in DOMAIN unified_tags_mapping :
            /\ unified_tags_mapping[k] # <<>>
            /\ unified_tags_mapping[k] = StrTitle(unified_tags_mapping[k])

\* the raw input has no topic, no hashtag and no seed category
ClaimNoCandidates ==
    /\ dataset_info_categories = <<>>
    /\ \A i \in 1..Len(input_before) :
           "metadata" \in DOMAIN input_before[i] =>
               /\ "topic" \notin DOMAIN input_before[i]["metadata"]
               /\ "hashtags" \in DOMAIN input_before[i]["metadata"] =>
                      input_before[i]["metadata"]["hashtags"] = <<>>

\* C9: in one run of process_posts the collaborator is contacted no time and the
\* mapping is empty when there is no candidate, and at most once otherwise; and it
\* is contacted only while no document has been enriched.
C9_ContactedAtMostOnceBeforeEnrich ==
    /\ [](/\ llm_calls <= 1
          /\ ClaimNoCandidates => (llm_calls = 0 /\ unified_tags_mapping = EmptyDict))
    /\ [][llm_calls' # llm_calls =>
              /\ enriched_posts = <<>>
              /\ DeepPosts(post_objs, meta_objs, original_posts) = input_before]_vars

\* a finished build that contacted the collaborator once and enriched two posts
C9_Witness ==
    /\ bpc = "done"
    /\ llm_calls = 1
    /\ Len(enriched_posts) = 2

\* C10: process_posts leaves every raw document, its metadata dict included, as it
\* was before the call.
C10_InputNotMutated ==
    DeepPosts(post_objs, meta_objs, original_posts) = input_before

(***************************************************************************)
(* process_posts: what the written posts keep of the raw posts.            *)
(***************************************************************************)
\* the metadata fields process_posts sets on every post
EnrichedMetaKeys == {"line_count", "language", "unified_tags"}

\* the metadata dict of a document, EmptyDict when it has none
ClaimMetaOf(doc) == IF "metadata" \in DOMAIN doc THEN doc["metadata"] ELSE EmptyDict

\* out keeps every field of raw: the top-level fields, the metadata fields other
\* than the three that are set, and the engagement when raw has one
ClaimKeepsFields(raw, out) ==
    /\ DOMAIN out = DOMAIN raw \cup {"metadata", "engagement"}
    /\ \A k \in DOMAIN raw \ {"metadata"} : out[k] = raw[k]
    /\ "engagement" \notin DOMAIN raw => out["engagement"] = DefaultEngagement
    /\ DOMAIN out["metadata"] = DOMAIN ClaimMetaOf(raw) \cup EnrichedMetaKeys
    /\ \A k \in DOMAIN ClaimMetaOf(raw) \ EnrichedMetaKeys :
           out["metadata"][k] = ClaimMetaOf(raw)[k]

\* C11: the written posts are as many as the raw posts and in their order, and
\* post i keeps every top-level field and every metadata field of raw post i,
\* but for line_count, language, unified_tags and an all-zero engagement added
\* when the raw post had none.
C11_OutputKeepsFields ==
    bpc = "done" =>
        /\ Len(processed_file.posts) = Len(input_before)
        /\ \A i \in 1..Len(input_before) :
               ClaimKeepsFields(input_before[i], processed_file.posts[i])

\* two posts written, one that came with an engagement and one without metadata
C11_Witness ==
    /\ bpc = "done"
    /\ Len(processed_file.posts) = 2
    /\ \E i, j \in 1..2 :
        /\ "engagement" \in DOMAIN input_before[i]
        /\ input_before[i]["engagement"] # DefaultEngagement
        /\ "metadata" \notin DOMAIN input_before[j]

\* the normalized topic of a raw metadata dict, then its normalized hashtags in
\* their list order
ClaimTagsInOrder(meta) ==
    (IF "topic" \in DOMAIN meta THEN <<NormTopic(meta["topic"])>> ELSE <<>>)
    \o (IF "hashtags" \in DOMAIN meta
        THEN [j \in 1..Len(meta["hashtags"]) |-> NormHashtag(meta["hashtags"][j])]
        ELSE <<>>)

\* each tag replaced by its label in the mapping, or kept when it has none
ClaimProject(tags) ==
    [j \in 1..Len(tags) |-> IF tags[j] \in DOMAIN unified_tags_mapping
                            THEN unified_tags_mapping[tags[j]] ELSE tags[j]]

\* C12: the unified_tags of every written post is the normalized topic, then the
\* normalized hashtags in list order, each projected through the mapping, with
\* later duplicates removed.
C12_UnifiedTagsFirstSeenOrder ==
    bpc = "done" =>
        \A i \in 1..Len(input_before) :
            processed_file.posts[i]["metadata"]["unified_tags"]
                = DedupFrom(ClaimProject(ClaimTagsInOrder(ClaimMetaOf(input_before[i]))), {})

\* C13: process_posts raises only when a raw post lacks the text field; a post
\* with no metadata, no topic or a null topic, no hashtags or no engagement is
\* handled by defaulting.
C13_RaisesOnlyOnMissingText ==
    build_raised # "" =>
        \E i \in 1..Len(input_before) : "text" \notin DOMAIN input_before[i]

(***************************************************************************)
(* get_tags: what the claims say of the tags returned.                     *)
(***************************************************************************)
\* the unified_tags of every document of the corpus that has the field
ClaimCorpusTags(corpus) ==
    UNION {ListSet(corpus[i]["metadata"]["unified_tags"]) :
               i \in {j \in 1..Len(corpus) : HasMeta(corpus[j], "unified_tags")}}

\* C18: get_tags returns, ascending and without duplicates, exactly the union of
\* the categories and the unified_tags of every document; a document lacking
\* metadata or unified_tags adds nothing and causes no error.
C18_TagsSortedUnion ==
    tags_pc = "done" =>
        /\ ~tags_raised
        /\ \A i \in 1..(Len(tags_returned) - 1) : StrLess(tags_returned[i], tags_returned[i + 1])
        /\ ListSet(tags_returned) = ListSet(categories) \cup ClaimCorpusTags(posts)

\* tags of the categories and of a document returned, the corpus holding a
\* document that has no unified_tags
C18_Witness ==
    /\ tags_pc = "done"
    /\ Len(tags_returned) >= 3
    /\ ListSet(categories) \ ClaimCorpusTags(posts) # {}
    /\ ClaimCorpusTags(posts) \ ListSet(categories) # {}
    /\ \E i \in 1..Len(posts) : ~HasMeta(posts[i], "unified_tags")

(***************************************************************************)
(* Post and the validators: what the claims say of them.                   *)
(***************************************************************************)
\* C14: the score calculate_post_quality_score returns for a document is at
\* least 0 and at most 10 (20 half points).
C14_ScoreBounds ==
    (post_pc = "scored" /\ post_raised = "") => (0 <= score_returned /\ score_returned <= 20)

\* a post that gathers every signal of the score is scored 10
C14_Witness ==
    /\ post_pc = "scored"
    /\ post_raised = ""
    /\ built_post.text = FullText
    /\ built_post.metadata.hashtags.items # <<>>
    /\ score_returned = 20

\* text holds w, whatever the case of the letters of text
ClaimHolds(text, w) ==
    \E i \in 1..(Len(text) - Len(w) + 1) : \A j \in 1..Len(w) : LowerChar(text[i + j - 1]) = w[j]

ClaimHoldsAny(text, words) == \E w \in words : ClaimHolds(text, w)

ClaimRow(cond, halves) == IF cond THEN halves ELSE 0

\* the rows of the table of the score, for a post of wc words, lc lines and hc
\* hashtags, in half points
ClaimTable(text, wc, lc, hc) ==
    ClaimRow(50 <= wc /\ wc <= 300, 4)
    + ClaimRow((30 <= wc /\ wc < 50) \/ (300 < wc /\ wc <= 500), 2)
    + ClaimRow(\E i \in 1..Len(text) : text[i] = "?", 2)
    + ClaimRow(\E i \in 1..Len(text) : text[i] = "!", 1)
    + ClaimRow(hc >= 1, 1)
    + ClaimRow(hc \in 1..5, 2)
    + ClaimRow(hc > 5, 1)
    + ClaimRow(lc >= 3, 2)
    + ClaimRow(\E i \in 1..(Len(text) - 1) : text[i] = "\n" /\ text[i + 1] = "\n", 2)
    + ClaimRow(ClaimHoldsAny(text, LogicalConnectors), 1)
    + ClaimRow(ClaimHoldsAny(text, PersonalInsights), 1)
    + ClaimRow(ClaimHoldsAny(text, PersonalExperience), 1)
    + ClaimRow(ClaimHoldsAny(text, ActionableContent), 1)
    + ClaimRow(ClaimHoldsAny(text, professional_words), 2)

ClaimKeywords ==
    LogicalConnectors \cup PersonalInsights \cup PersonalExperience \cup ActionableContent
    \cup professional_words

\* a post of 60 words and 4 lines with a question mark, the one hashtag '#AI',
\* no exclamation mark, no blank line and no keyword
ClaimScenario(p) ==
    /\ Post_word_count(p) = 60
    /\ Post_line_count(p) = 4
    /\ Contains(p.text, <<"?">>)
    /\ ~Contains(p.text, <<"!">>)
    /\ p.metadata.hashtags = ListOf(<<HashAI>>)
    /\ ~Contains(p.text, <<"\n", "\n">>)
    /\ ~ClaimHoldsAny(p.text, ClaimKeywords)

\* C15: the score is the lesser of 10.0 and the sum of the points of the rows
\* of the table that hold; the 60-word, 4-line post with a question mark and the
\* one hashtag '#AI' is scored 5.5.
C15_ScoreIsTableSum ==
    (post_pc = "scored" /\ post_raised = "") =>
        /\ score_returned =
               LET sum == ClaimTable(built_post.text, Post_word_count(built_post),
                                     Post_line_count(built_post),
                                     Len(built_post.metadata.hashtags.items))
               IN  IF sum > 20 THEN 20 ELSE sum
        /\ ClaimScenario(built_post) => score_returned = 11

\* the 60-word post of the scenario, scored
C15_Witness ==
    /\ post_pc = "scored"
    /\ post_raised = ""
    /\ built_post.text = ScenarioText
    /\ post_args.metadata.word_count = Nil
    /\ post_args.metadata.line_count = Nil
    /\ ClaimScenario(built_post)
    /\ score_returned = 11

\* the documents of the same text whose metadata carries other counts or hashtags
ClaimSameTextDocs(text) == {PostInit([text |-> text, metadata |-> m]) : m \in CountMetadatas}

\* C16: any two documents with the same text are given the same score, whatever
\* word_count, line_count or hashtags their metadata carries.
C16_SameTextSameScore ==
    (post_pc = "scored" /\ post_raised = "") =>
        \A q \in ClaimSameTextDocs(built_post.text) :
            calculate_post_quality_score(q).value = score_returned

\* a hashtag as the checks want it: '#', then 1 to 49 letters, digits or
\* underscores (a newline may end it)
ClaimWellFormed(h) ==
    /\ h # <<>>
    /\ h[1] = "#"
    /\ Len(h) >= 2
    /\ Len(h) <= 50
    /\ \E n \in {Len(h), Len(h) - 1} :
        /\ n >= 2
        /\ n = Len(h) \/ h[Len(h)] = "\n"
        /\ \A i \in 2..n : h[i] \in WordChars

\* the message of the first check a malformed hashtag fails
ClaimHashtagMessage(h) ==
    IF h = <<>> \/ h[1] # "#" THEN Msg("Hashtag must start with #", h)
    ELSE IF Len(h) = 1 THEN Msg("Hashtag is too short", h)
    ELSE IF Len(h) > 50 THEN Msg("Hashtag is too long", h)
    ELSE Msg("Hashtag contains invalid characters", h)

\* the text checks that fail, in the order they are made
ClaimTextFailures(text) ==
    Warning(StrStrip(text) = <<>>, "Post text cannot be empty")
    \o Warning(Len(StrStrip(text)) < 10, "Post text must be at least 10 characters long")
    \o Warning(Len(text) > 3000, "Post text cannot exceed 3000 characters")
    \o Warning(Cardinality({i \in 1..Len(text) : text[i] = "#"}) > 10,
               "Post cannot have more than 10 hashtags")

\* the messages of the malformed hashtags of a list, in list order
ClaimHashtagFailures(hashtags) ==
    IF hashtags.kind # "list" THEN <<>>
    ELSE LET bad == SelectSeq(hashtags.items, LAMBDA h : ~ClaimWellFormed(h))
         IN  [i \in 1..Len(bad) |-> ClaimHashtagMessage(bad[i])]

\* the messages of the failing checks of the claim, the first one first
ClaimFailures(p) ==
    [i \in 1..Len(ClaimTextFailures(p.text)) |-> Msg(ClaimTextFailures(p.text)[i], <<>>)]
    \o ClaimHashtagFailures(p.metadata.hashtags)

\* C17: when the text is empty, too short, too long or holds more than 10 '#',
\* or a hashtag is malformed, validate_post_quality raises nothing and reports
\* is_valid false, the one message of the first failing check as errors, score
\* 0.0, and empty warnings and metrics.
C17_FailureReport ==
    (post_pc = "assessed" /\ ClaimFailures(built_post) # <<>>) =>
        /\ post_raised = ""
        /\ quality_metrics = [is_valid |-> FALSE,
                              errors |-> <<Head(ClaimFailures(built_post))>>,
                              warnings |-> <<>>, score |-> 0, metrics |-> EmptyDict]

\* a post with a sound text and a malformed hashtag after a well-formed one
C17_Witness ==
    /\ post_pc = "assessed"
    /\ ClaimTextFailures(built_post.text) = <<>>
    /\ Len(built_post.metadata.hashtags.items) >= 2
    /\ ClaimWellFormed(built_post.metadata.hashtags.items[1])
    /\ ClaimHashtagFailures(built_post.metadata.hashtags) # <<>>
    /\ quality_metrics.is_valid = FALSE

\* the value of a count of the claim: the one supplied to Post(...), or the one
\* computed from the text when none was supplied
ClaimCount(supplied, computed) == IF supplied = Nil THEN computed ELSE supplied[1]

\* C19: the line_count and the word_count of a constructed Post are computed
\* from the text exactly when they were not supplied; a supplied value, 0
\* included, is the value the property returns.
C19_CountsSuppliedOrComputed ==
    post_pc \in {"built", "scored", "assessed"} =>
        /\ Post_line_count(built_post)
               = ClaimCount(post_args.metadata.line_count, SplitLinesCount(post_args.text))
        /\ Post_word_count(built_post)
               = ClaimCount(post_args.metadata.word_count, SplitWordsCount(post_args.text))

\* the bucket of a line count, in the words of the claim
ClaimLengthCategory(n) ==
    CASE n < 5 -> "Short"
      [] 5 <= n /\ n <= 10 -> "Medium"
      [] n > 10 -> "Long"

\* C20: Post.length_category is Short when line_count < 5, Medium when
\* 5 <= line_count <= 10 and Long when line_count > 10, and nothing else: a post
\* of 5 lines is Medium and a post of 16 lines is Long.
C20_LengthCategoryOfLineCount ==
    post_pc \in {"built", "scored", "assessed"} =>
        /\ Post_length_category(built_post) = ClaimLengthCategory(Post_line_count(built_post))
        /\ Post_line_count(built_post) = 5 => Post_length_category(built_post) = "Medium"
        /\ Post_line_count(built_post) = 16 => Post_length_category(built_post) = "Long"

\* a post of 5 lines is Medium
C20_Witness ==
    /\ post_pc = "built"
    /\ post_args.metadata.line_count = Nil
    /\ SplitLinesCount(built_post.text) = 5
    /\ Post_length_category(built_post) = "Medium"

\* C22: validate_post_text returns True exactly when the text is not blank, its
\* trimmed length is at least 10, its length at most 3000 and it holds at most
\* 10 '#'; otherwise it raises the message of the first failing check, in the
\* order empty, too short, too long, too many hashtags.
C22_TextVerdict ==
    post_pc = "text_checked" =>
        /\ text_verdict = Passed <=>
               /\ StrStrip(built_post.text) # <<>>
               /\ Len(StrStrip(built_post.text)) >= 10
               /\ Len(built_post.text) <= 3000
               /\ Cardinality({i \in 1..Len(built_post.text) : built_post.text[i] = "#"}) <= 10
        /\ text_verdict # Passed =>
               text_verdict = Msg(Head(ClaimTextFailures(built_post.text)), <<>>)

\* a text too long that also holds too many '#': the length is what is reported
C22_Witness ==
    /\ post_pc = "text_checked"
    /\ Len(ClaimTextFailures(built_post.text)) = 2
    /\ text_verdict = Msg("Post text cannot exceed 3000 characters", <<>>)

\* C26, as stated: among the documents that are scored there is one whose sum of
\* points is above 10 (20 half points), so that the cap changes its score.
C26_SumCanExceedTen ==
    post_pc = "scored" =>
        \E a \in PostArgs :
            /\ a.metadata.hashtags.kind # "None"
            /\ ScoreSum(PostInit(a), Len(a.metadata.hashtags.items)) > 20

\* C26, amended: the sum of points never exceeds 10, which a document with every
\* signal reaches exactly, and the score returned is the sum itself.
C26_SumAtMostTen ==
    (post_pc = "scored" /\ post_raised = "") =>
        /\ ScoreSum(built_post, Len(built_post.metadata.hashtags.items)) <= 20
        /\ score_returned = ScoreSum(built_post, Len(built_post.metadata.hashtags.items))

\* the document with every signal: its points add up to 10 and no more
C26_Witness ==
    /\ post_pc = "scored"
    /\ post_raised = ""
    /\ LengthPoints(Post_word_count(built_post)) = 4
    /\ Len(built_post.metadata.hashtags.items) \in 1..5
    /\ ScoreSum(built_post, Len(built_post.metadata.hashtags.items)) = 20

\* the text and the hashtags of a post pass their checks
ClaimTextAndHashtagsPass(p) ==
    /\ ClaimTextFailures(p.text) = <<>>
    /\ p.metadata.hashtags.kind # "None"
    /\ p.metadata.hashtags.items # <<>> =>
           /\ p.metadata.hashtags.kind = "list"
           /\ \A i \in 1..Len(p.metadata.hashtags.items) :
                  ClaimWellFormed(p.metadata.hashtags.items[i])

\* a topic too long, or a quality_score other than 0 outside 0..10
ClaimTopicOrScoreFails(m) ==
    \/ m.topic # Nil /\ Len(m.topic[1]) > 100
    \/ m.quality_score # Nil /\ m.quality_score[1] # 0
           /\ (m.quality_score[1] < 0 \/ m.quality_score[1] > 10)

\* the metadata fails as the claim has it: any tone or estimated_engagement that
\* is given and is not one of the allowed values
ClaimMetadataFails(m) ==
    \/ ClaimTopicOrScoreFails(m)
    \/ m.tone # Nil /\ m.tone[1] \notin AllowedTones
    \/ m.estimated_engagement # Nil /\ m.estimated_engagement[1] \notin EngagementLevels

\* the same, an empty tone or estimated_engagement counting as not given
ClaimMetadataFailsNonEmpty(m) ==
    \/ ClaimTopicOrScoreFails(m)
    \/ m.tone # Nil /\ m.tone[1] # "" /\ m.tone[1] \notin AllowedTones
    \/ m.estimated_engagement # Nil /\ m.estimated_engagement[1] # ""
           /\ m.estimated_engagement[1] \notin EngagementLevels

\* the report of a post whose text and hashtags pass: invalid with score 0.0 when
\* the metadata fails, and otherwise valid, without errors, with the score of
\* calculate_post_quality_score
ClaimMetadataReport(fails) ==
    (post_pc = "assessed" /\ ClaimTextAndHashtagsPass(built_post)) =>
        /\ post_raised = ""
        /\ IF fails
           THEN quality_metrics.is_valid = FALSE /\ quality_metrics.score = 0
           ELSE /\ quality_metrics.is_valid = TRUE
                /\ quality_metrics.errors = <<>>
                /\ quality_metrics.score = calculate_post_quality_score(built_post).value

\* C28, as stated: a post whose text and hashtags pass is reported invalid with
\* score 0.0 when its tone or estimated_engagement is outside the allowed
\* values, its topic is longer than 100 characters or its non-zero quality_score
\* is outside [0,10], and valid with the computed score otherwise.
C28_MetadataFailureReport == ClaimMetadataReport(ClaimMetadataFails(built_post.metadata))

\* C28, amended: the same, for a tone or estimated_engagement that is not empty.
C28_NonEmptyMetadataFailureReport ==
    ClaimMetadataReport(ClaimMetadataFailsNonEmpty(built_post.metadata))

\* a post with a sound text and a tone that is not allowed, reported invalid
C28_Witness ==
    /\ post_pc = "assessed"
    /\ ClaimTextAndHashtagsPass(built_post)
    /\ built_post.metadata.tone = Some("witty")
    /\ built_post.metadata.topic = Nil
    /\ quality_metrics.is_valid = FALSE
    /\ quality_metrics.score = 0


\* the line count of the one document of the corpus
ClaimOnlyLineCount == posts[1]["metadata"]["line_count"]

\* C29: the selector's bucket of a line count and Post.length_category agree on
\* the line counts 1..4, 6..10 and 11..15 and disagree elsewhere: a document of
\* 5 lines is returned under Short only while Post.length_category says Medium,
\* and a document of 0 lines or of more than 15 is returned under no bucket
\* while Post.length_category says Short or Long.
C29_BucketRulesCompared ==
    (/\ sel_pc = "done"
     /\ Len(posts) = 1
     /\ HasMeta(posts[1], "line_count")
     /\ ClaimTagMember(posts[1], sel_args.tag)
     /\ ClaimLanguageEqual(posts[1], sel_args.language))
    => LET n == ClaimOnlyLineCount
           returned == filtered = posts
       IN  /\ n \in (1..4) \cup (6..10) \cup (11..15)
                => (returned <=> sel_args.length_category = length_category(n))
           /\ n = 5
                => /\ returned <=> sel_args.length_category = "Short"
                   /\ length_category(n) = "Medium"
           /\ n = 0 => ~returned /\ length_category(n) = "Short"
           /\ n > 15 => ~returned /\ length_category(n) = "Long"

\* a document of 16 lines asked for under Long, the bucket Post.length_category
\* gives it, and not returned
C29_Witness ==
    /\ sel_pc = "done"
    /\ Len(posts) = 1
    /\ HasMeta(posts[1], "line_count")
    /\ ClaimOnlyLineCount = 16
    /\ ClaimTagMember(posts[1], sel_args.tag)
    /\ ClaimLanguageEqual(posts[1], sel_args.language)
    /\ sel_args.length_category = "Long"
    /\ length_category(ClaimOnlyLineCount) = "Long"
    /\ filtered = <<>>

\* the three conditions of a request, in the words of the claim
ClaimRequestWellFormed(kw) ==
    /\ kw.length_category \in {"Short", "Medium", "Long"}
    /\ kw.language \in {English, Hinglish}
    /\ \E i \in 1..Len(kw.tag) : kw.tag[i] \notin Whitespace

\* C21: constructing a PostGenerationRequest succeeds iff length_category is one
\* of Short, Medium, Long, language is English or Hinglish and the tag is neither
\* empty nor all whitespace; on success the stored tag is the trimmed tag, and on
\* any violation a ValueError is raised and no request object is produced.
C21_RequestConstruction ==
    req_pc = "done" =>
        /\ req_raised = "" <=> ClaimRequestWellFormed(req_args)
        /\ req_raised = ""
             => /\ request # Nil
                /\ request[1].tag = StrStrip(req_args.tag)
                /\ request[1].length_category = req_args.length_category
                /\ request[1].language = req_args.language
        /\ req_raised # "" => req_raised = "ValueError" /\ request = Nil

\* a request whose tag had whitespace around it, stored trimmed
C21_Witness ==
    /\ req_pc = "done"
    /\ req_args.tag = <<" ", "A", "i", "\t">>
    /\ req_raised = ""
    /\ request # Nil
    /\ request[1].tag = TagAi

\* C24: a reader that loads the enriched corpus at any moment of a rebuild gets
\* the whole previous corpus or the whole new one, never a partial, unparseable
\* or empty one.
C24_ReaderSeesWholeCorpus ==
    reader_pc = "loaded" =>
        /\ loaded.outcome = "ok"
        /\ loaded.posts \in {previous_data.posts, output_data.posts}

\* the language the raw document i supplied, Nil when it supplied none
ClaimSuppliedLanguage(i) ==
    IF HasMeta(input_before[i], "language")
    THEN Some(input_before[i]["metadata"]["language"]) ELSE Nil

\* C27: every document process_posts writes has metadata.language = 'English',
\* whatever language the raw document supplied; so get_filtered_posts asked for
\* Hinglish returns the empty list over the corpus process_posts wrote.
C27_LanguageAlwaysEnglish ==
    bpc = "done" =>
        /\ \A i \in 1..Len(processed_file.posts) :
               processed_file.posts[i]["metadata"]["language"] = English
        /\ (sel_pc = "done" /\ sel_args.language = Hinglish)
               => (filtered = <<>> /\ ~sel_raised)

\* a raw document tagged Go that said Hinglish is written as English, and a
\* request for Go in Hinglish under its bucket gets nothing
C27_Witness ==
    /\ bpc = "done"
    /\ sel_pc = "done"
    /\ sel_args.language = Hinglish
    /\ \E i \in 1..Len(posts) :
        /\ ClaimSuppliedLanguage(i) = Some(Hinglish)
        /\ posts[i]["metadata"]["language"] = English
        /\ ClaimTagMember(posts[i], sel_args.tag)
        /\ ClaimInBucket(posts[i], sel_args.length_category)
    /\ filtered = <<>>

\* C25: tag normalization (trim, strip the hashtag marker, title-case) is
\* idempotent: normalizing the normalized form of a raw tag gives the string
\* that normalizing the raw tag once gave.
C25_NormalizationIdempotent ==
    bpc = "unify" =>
        \A i \in 1..Len(original_posts) :
            /\ \A n \in TopicTags(RawMeta(i)) : NormTopic(n) = n
            /\ \A n \in HashtagTags(RawMeta(i)) : NormHashtag(n) = n

\* C30: over any sequence of get_groq_client and reset_llm_client calls the
\* client is constructed at most once between two resets: a successful
\* get_groq_client returns the instance the first successful call since the
\* reset returned, constructing one only when none was stored; a call that fails
\* (no API key, or the constructor raising) leaves the stored client unset; and
\* reset_llm_client leaves it unset.
C30_OneClientBetweenResets ==
    /\ llm_built_since_reset <= 1
    /\ (llm_last.op = "get" /\ llm_last.raised = "")
           => /\ llm_last.returned # 0
              /\ llm_last.returned = llm_first
              /\ llm_last.returned = llm_instance
              /\ llm_client # "None"
              /\ llm_last.built => llm_last.returned = llm_built
    /\ (llm_last.op = "get" /\ llm_last.raised # "")
           => /\ llm_client = "None"
              /\ llm_instance = 0
              /\ ~llm_last.built
    /\ llm_last.op = "reset" => (llm_client = "None" /\ llm_instance = 0)

\* the second instance, constructed after a reset, returned again by a later call
C30_Witness ==
    /\ llm_built = 2
    /\ llm_built_since_reset = 1
    /\ llm_last.op = "get"
    /\ llm_last.raised = ""
    /\ ~llm_last.built
    /\ llm_last.returned = 2

\* C23: get_unified_tags always eventually returns: when the collaborator never
\* answers the one outbound call, a bounded timeout ends the wait and the
\* fallback mapping is returned, so a corpus build never stays in the call.
C23_ResolveEventuallyReturns == (bpc = "waiting") ~> (bpc # "waiting")

====
